---------------------------- MODULE Spec2Model ----------------------------
(***************************************************************************)
(* FinKit transaction-normalization pipeline (web client):                 *)
(*   anonymizer   (web/src/utils/analysis.ts, lines 308-587)               *)
(*   categorizer  (web/src/lib/categorizer.ts)                             *)
(*   internal-transfer detector (web/src/lib/double-booking.ts)            *)
(*   recurrence detector (web/src/lib/recurring.ts)                        *)
(*   App handlers (web/src/App.tsx)                                        *)
(*   amount parsing of the file parser (web/src/lib/parser.ts)             *)
(*                                                                         *)
(* Representation.  A JavaScript string is a sequence of one-character     *)
(* strings, so that includes(), toLowerCase(), slice() and the regular     *)
(* expressions of the source are computed character by character.  An      *)
(* absent optional string (undefined) and the empty string are both the    *)
(* empty sequence: every use in the pipeline is a truthiness test, which   *)
(* does not tell them apart.  An absent optional boolean is FALSE.         *)
(* Amounts are integers in cents.  A date is the triple <<y, m, d>> of an  *)
(* ISO "YYYY-MM-DD" string.  A transaction id `tx_${Date.now()}_${index}`  *)
(* is the pair <<Date.now(), index>>.                                      *)
(***************************************************************************)
EXTENDS Integers, Sequences, FiniteSets, TLC

VARIABLES
  rawTransactionsRef,    \* App.tsx:22   rawTransactionsRef.current
  transactions,          \* App.tsx:14   React state `transactions`
  anonymizationEnabled,  \* App.tsx:19   React state `anonymizationEnabled`
  error,                 \* App.tsx:16   React state `error` (TRUE = a message is set)
  store,                 \* analysis.ts:456  the AnonymizationStore singleton
  learnedMappings,       \* categorizer.ts:75 the learned-mappings cache
  now,                   \* the value Date.now() returns
  run,                   \* the last processTransactions call, stage by stage
  fileNo,                \* history: number of files imported so far
  storeFile,             \* history: the import during which the store was last filled
  parse,                 \* the cell parseNumber is called on, and what it returned
  summary                \* what getRecurringSummary returned for the last result

vars == <<rawTransactionsRef, transactions, anonymizationEnabled, error, store,
          learnedMappings, now, run, fileNo, storeFile, parse, summary>>

-----------------------------------------------------------------------------
(* JavaScript strings                                                      *)

UpperCaseLetters ==
  <<"A","B","C","D","E","F","G","H","I","J","K","L","M","N","O","P","Q","R","S","T",
    "U","V","W","X","Y","Z","Ä","Ö","Ü">>

LowerCaseLetters ==
  <<"a","b","c","d","e","f","g","h","i","j","k","l","m","n","o","p","q","r","s","t",
    "u","v","w","x","y","z","ä","ö","ü">>

DigitChars == {"0","1","2","3","4","5","6","7","8","9"}

AsciiUpper == {UpperCaseLetters[i] : i \in 1..26}

AsciiLower == {LowerCaseLetters[i] : i \in 1..26}

\* \w of a JavaScript regular expression without the u flag: [A-Za-z0-9_]
WordChars == AsciiUpper \cup AsciiLower \cup DigitChars \cup {"_"}

\* \s restricted to the white space the inputs contain
IsSpace(c) == c = " "

LowerOf ==
  [c \in {UpperCaseLetters[i] : i \in DOMAIN UpperCaseLetters} |->
     LowerCaseLetters[CHOOSE i \in DOMAIN UpperCaseLetters : UpperCaseLetters[i] = c]]

UpperOf ==
  [c \in {LowerCaseLetters[i] : i \in DOMAIN LowerCaseLetters} |->
     UpperCaseLetters[CHOOSE i \in DOMAIN LowerCaseLetters : LowerCaseLetters[i] = c]]

toLowerChar(c) == IF c \in DOMAIN LowerOf THEN LowerOf[c] ELSE c

toUpperChar(c) == IF c \in DOMAIN UpperOf THEN UpperOf[c] ELSE c

toLowerCase(s) == [i \in 1..Len(s) |-> toLowerChar(s[i])]

toUpperCase(s) == [i \in 1..Len(s) |-> toUpperChar(s[i])]

\* s.slice(from) with a 0-based, non-negative `from`
sliceFrom(s, from) == SubSeq(s, from + 1, Len(s))

\* s.slice(-n): the last n characters (the whole string when it is shorter)
sliceLast(s, n) == IF Len(s) <= n THEN s ELSE SubSeq(s, Len(s) - n + 1, Len(s))

startsWithAt(s, sub, i) ==
  /\ i + Len(sub) - 1 <= Len(s)
  /\ \A k \in 1..Len(sub) : s[i + k - 1] = sub[k]

startsWith(s, sub) == startsWithAt(s, sub, 1)

endsWith(s, sub) == Len(sub) <= Len(s) /\ startsWithAt(s, sub, Len(s) - Len(sub) + 1)

includes(s, sub) == \E i \in 1..(Len(s) - Len(sub) + 1) : startsWithAt(s, sub, i)

trim(s) ==
  LET keep == {i \in 1..Len(s) : ~IsSpace(s[i])}
  IN  IF keep = {} THEN <<>>
      ELSE SubSeq(s, CHOOSE i \in keep : \A j \in keep : i <= j,
                     CHOOSE i \in keep : \A j \in keep : j <= i)

\* replace(/\s+/g, ' ')
RECURSIVE collapseSpaces(_)
collapseSpaces(s) ==
  IF s = <<>> THEN <<>>
  ELSE IF IsSpace(s[1])
       THEN IF Len(s) > 1 /\ IsSpace(s[2]) THEN collapseSpaces(Tail(s))
            ELSE <<" ">> \o collapseSpaces(Tail(s))
       ELSE <<s[1]>> \o collapseSpaces(Tail(s))

\* \b at the position before s[i] (i in 1..Len(s)+1)
wordBoundary(s, i) ==
  LET before == i > 1 /\ s[i - 1] \in WordChars
      after  == i <= Len(s) /\ s[i] \in WordChars
  IN  before # after

\* End positions (exclusive) of the matches of the token sequence pat[k..] at s[i..],
\* case-insensitively.  A token is a lower-case character, or \s, \s* or \s+.
RECURSIVE matchEnds(_, _, _, _)
matchEnds(s, i, pat, k) ==
  IF k > Len(pat) THEN {i}
  ELSE LET t == pat[k]
           run1 == {j \in i..Len(s) : \A m \in i..j : IsSpace(s[m])}
       IN  CASE t = "\\s"  -> IF i <= Len(s) /\ IsSpace(s[i])
                              THEN matchEnds(s, i + 1, pat, k + 1) ELSE {}
             [] t = "\\s*" -> UNION {matchEnds(s, j + 1, pat, k + 1) : j \in run1 \cup {i - 1}}
             [] t = "\\s+" -> UNION {matchEnds(s, j + 1, pat, k + 1) : j \in run1}
             [] OTHER      -> IF i <= Len(s) /\ toLowerChar(s[i]) = t
                              THEN matchEnds(s, i + 1, pat, k + 1) ELSE {}

\* The match of /\b(alt1|alt2|...)\b/i that starts at position i, if any: the end
\* (exclusive) of the first alternative, in order, that matches up to a word boundary;
\* within an alternative the white-space runs are greedy.  0 when none matches.
matchAltsAt(s, i, alts) ==
  IF ~wordBoundary(s, i) THEN 0
  ELSE LET ends(a) == {e \in matchEnds(s, i, alts[a], 1) : wordBoundary(s, e)}
           ok == {a \in DOMAIN alts : ends(a) # {}}
       IN  IF ok = {} THEN 0
           ELSE LET a == CHOOSE x \in ok : \A y \in ok : x <= y
                IN  CHOOSE e \in ends(a) : \A f \in ends(a) : f <= e

\* pattern.test(s) for /\b(alt1|alt2|...)\b/i
regexTest(s, alts) == \E i \in 1..Len(s) : matchAltsAt(s, i, alts) # 0

-----------------------------------------------------------------------------
(* Anonymizer: web/src/utils/analysis.ts, lines 308-587                    *)

\* the value of a lookup that finds nothing
Undefined == <<"undefined">>

KNOWN_MERCHANTS ==
  {
    <<"r","e","w","e">>, <<"a","l","d","i">>, <<"l","i","d","l">>, <<"e","d","e","k","a">>,
    <<"n","e","t","t","o">>, <<"p","e","n","n","y">>, <<"k","a","u","f","l","a","n","d">>,
    <<"r","e","a","l">>, <<"d","m">>, <<"r","o","s","s","m","a","n","n">>,
    <<"m","ü","l","l","e","r">>, <<"a","m","a","z","o","n">>, <<"z","a","l","a","n","d","o">>,
    <<"o","t","t","o">>, <<"e","b","a","y">>, <<"m","e","d","i","a","m","a","r","k","t">>,
    <<"s","a","t","u","r","n">>, <<"f","l","a","c","o","n","i">>,
    <<"l","i","e","f","e","r","a","n","d","o">>, <<"w","o","l","t">>,
    <<"u","b","e","r"," ","e","a","t","s">>,
    <<"d","e","l","i","v","e","r","y"," ","h","e","r","o">>,
    <<"m","c","d","o","n","a","l","d","s">>, <<"b","u","r","g","e","r"," ","k","i","n","g">>,
    <<"s","u","b","w","a","y">>, <<"k","f","c">>, <<"s","t","a","r","b","u","c","k","s">>,
    <<"a","p","p","l","e">>, <<"n","e","t","f","l","i","x">>, <<"s","p","o","t","i","f","y">>,
    <<"p","l","a","y","s","t","a","t","i","o","n">>, <<"x","b","o","x">>,
    <<"s","t","e","a","m">>, <<"n","i","n","t","e","n","d","o">>,
    <<"s","o","n","y"," ","i","n","t","e","r","a","c","t","i","v","e"," ","e","n","t","e","r","t","a","i","n","m","e","n","t">>,
    <<"g","o","o","g","l","e">>, <<"p","a","y","p","a","l">>,
    <<"s","c","a","l","a","b","l","e"," ","c","a","p","i","t","a","l">>,
    <<"t","r","a","d","e"," ","r","e","p","u","b","l","i","c">>, <<"n","2","6">>,
    <<"d","k","b">>, <<"s","p","a","r","k","a","s","s","e">>,
    <<"c","o","m","m","e","r","z","b","a","n","k">>,
    <<"d","e","u","t","s","c","h","e"," ","b","a","n","k">>, <<"i","n","g">>,
    <<"c","o","m","d","i","r","e","c","t">>, <<"f","i","n","a","n","z","a","m","t">>,
    <<"t","r","a","n","s","f","e","r","w","i","s","e">>, <<"w","i","s","e">>,
    <<"a","l","l","i","a","n","z">>, <<"e","r","g","o">>, <<"h","u","k">>, <<"a","x","a">>,
    <<"g","e","t","s","a","f","e">>, <<"t","e","l","e","k","o","m">>,
    <<"v","o","d","a","f","o","n","e">>, <<"o","2">>, <<"c","o","n","g","s","t","a","r">>,
    <<"a","l","d","i"," ","t","a","l","k">>, <<"r","e","b","t","e","l">>,
    <<"d","e","u","t","s","c","h","e"," ","b","a","h","n">>, <<"d","b">>, <<"b","v","g">>,
    <<"u","b","e","r">>, <<"b","o","l","t">>, <<"f","r","e","e","n","o","w">>,
    <<"v","a","t","t","e","n","f","a","l","l">>, <<"e","o","n">>,
    <<"b","e","i","t","r","a","g","s","s","e","r","v","i","c","e">>, <<"a","r","d">>,
    <<"z","d","f">>, <<"i","k","e","a">>, <<"h","&","m">>, <<"z","a","r","a">>,
    <<"p","r","i","m","a","r","k">>, <<"z","e","e","m","a","n">>,
    <<"m","a","y","a"," ","h","a","n","d","e","l","s">>
  }

BUSINESS_SUFFIXES ==
  <<
    <<"g","m","b","h">>, <<"a","g">>, <<"l","t","d">>, <<"i","n","c">>, <<"c","o">>,
    <<"k","g">>, <<"o","h","g">>, <<"u","g">>, <<"s","e">>, <<"e","v">>, <<"e",".","v",".">>,
    <<"c","o","r","p">>, <<"l","l","c">>, <<"l","i","m","i","t","e","d">>,
    <<"h","o","l","d","i","n","g">>, <<"g","r","o","u","p">>,
    <<"s","e","r","v","i","c","e","s">>, <<"p","a","y","m","e","n","t","s">>,
    <<"b","a","n","k">>, <<"s","p","a","r","k","a","s","s","e">>,
    <<"v","e","r","s","i","c","h","e","r","u","n","g">>, <<"f","i","n","a","n","z">>,
    <<"c","a","p","i","t","a","l">>
  >>

isLikelyBusiness(name) ==
  IF name = <<>> THEN FALSE
  ELSE LET lower == trim(toLowerCase(name))
       IN  \/ \E merchant \in KNOWN_MERCHANTS : includes(lower, merchant)
           \/ \E k \in DOMAIN BUSINESS_SUFFIXES : includes(lower, BUSINESS_SUFFIXES[k])

\* ---- class AnonymizationStore ----
\* mappings: the Map's entries in insertion order, its key `${type}:${original}` kept
\* as the pair (type, original);  reverseMap: the Map as a set of <<key, value>> pairs.

ZeroCounters == [name |-> 0, iban |-> 0, account |-> 0, email |-> 0, phone |-> 0, address |-> 0]

EmptyStore == [mappings |-> <<>>, reverseMap |-> {}, counters |-> ZeroCounters]

clear(st) == EmptyStore

IdChars ==
  <<"A","B","C","D","E","F","G","H","J","K","L","M","N","P","Q","R","S","T","U","V",
    "W","X","Y","Z","2","3","4","5","6","7","8","9">>

RECURSIVE generateIdLoop(_, _)
generateIdLoop(n, id) ==
  IF n > 0 \/ Len(id) < 3
  THEN generateIdLoop(n \div Len(IdChars), <<IdChars[(n % Len(IdChars)) + 1]>> \o id)
  ELSE id

generateId(num) == generateIdLoop(num, <<>>)

RECURSIVE decimalDigits(_)
decimalDigits(n) ==
  LET d == <<"0","1","2","3","4","5","6","7","8","9">>[(n % 10) + 1]
  IN  IF n < 10 THEN <<d>> ELSE decimalDigits(n \div 10) \o <<d>>

repeatStar(n) == [i \in 1..n |-> "*"]

mapHas(mappings, type, original) ==
  \E k \in DOMAIN mappings : mappings[k].type = type /\ mappings[k].original = original

mapGet(mappings, type, original) ==
  mappings[CHOOSE k \in DOMAIN mappings :
             mappings[k].type = type /\ mappings[k].original = original]

reverseSet(reverseMap, anonymized, original) ==
  {p \in reverseMap : p[1] # anonymized} \cup {<<anonymized, original>>}

\* the part of original.split('@') before the first '@', and the part after it up to
\* the next '@'
splitAt(original) ==
  LET ats == {i \in 1..Len(original) : original[i] = "@"}
      first == IF ats = {} THEN Len(original) + 1
               ELSE CHOOSE i \in ats : \A j \in ats : i <= j
      later == {i \in ats : i > first}
      second == IF later = {} THEN Len(original) + 1
                ELSE CHOOSE i \in later : \A j \in later : i <= j
  IN  [local |-> SubSeq(original, 1, first - 1),
       domain |-> SubSeq(original, first + 1, second - 1)]

\* The pseudonym getOrCreate builds for a new key, and the counters after it.
\* threw: '*'.repeat(n) with n < 0 raises a RangeError.
newPseudonym(counters, original, type) ==
  CASE type = "name" ->
         [counters |-> [counters EXCEPT !.name = @ + 1], threw |-> FALSE,
          anonymized |-> <<"P","e","r","s","o","n","_">> \o generateId(counters.name + 1)]
    [] type = "iban" ->
         IF Len(original) - 6 < 0
         THEN [counters |-> counters, threw |-> TRUE, anonymized |-> <<>>]
         ELSE [counters |-> counters, threw |-> FALSE,
               anonymized |-> SubSeq(original, 1, 2) \o repeatStar(Len(original) - 6)
                                \o sliceLast(original, 4)]
    [] type = "account" ->
         [counters |-> [counters EXCEPT !.account = @ + 1], threw |-> FALSE,
          anonymized |-> <<"A","c","c","_">> \o generateId(counters.account + 1)]
    [] type = "email" ->
         [counters |-> counters, threw |-> FALSE,
          anonymized |-> <<splitAt(original).local[1]>> \o <<"*","*","*","@">>
                           \o splitAt(original).domain]
    [] type = "phone" ->
         [counters |-> counters, threw |-> FALSE,
          anonymized |-> <<"+","*","*","*","*","*","*","*","*","*","*">>
                           \o sliceLast(original, 4)]
    [] type = "address" ->
         [counters |-> [counters EXCEPT !.address = @ + 1], threw |-> FALSE,
          anonymized |-> <<"A","d","d","r","e","s","s","_">>
                           \o decimalDigits(counters.address + 1)]
    [] OTHER ->
         [counters |-> counters, threw |-> FALSE,
          anonymized |-> <<"[","R","E","D","A","C","T","E","D","]">>]

\* lines 427-431 of getOrCreate: the new pseudonym p is entered in both maps
setMapping(st, original, type, p) ==
  IF p.threw
  THEN [store |-> st, value |-> <<>>, threw |-> TRUE]
  ELSE [store |->
          [mappings |-> Append(st.mappings,
                          [original |-> original, anonymized |-> p.anonymized,
                           type |-> type]),
           reverseMap |-> reverseSet(st.reverseMap, p.anonymized, original),
           counters |-> p.counters],
        value |-> p.anonymized, threw |-> FALSE]

\* getOrCreate without the lookup of the existing key (lines 393-395)
getOrCreateAlways(st, original, type) ==
  setMapping(st, original, type, newPseudonym(st.counters, original, type))

\* store.getOrCreate(original, type): the store after the call, the value returned,
\* and whether the call threw (the store is then left as it was)
getOrCreate(st, original, type) ==
  IF mapHas(st.mappings, type, original)
  THEN [store |-> st, value |-> mapGet(st.mappings, type, original).anonymized,
        threw |-> FALSE]
  ELSE setMapping(st, original, type, newPseudonym(st.counters, original, type))

getOriginal(st, anonymized) ==
  IF \E p \in st.reverseMap : p[1] = anonymized
  THEN (CHOOSE p \in st.reverseMap : p[1] = anonymized)[2]
  ELSE Undefined

getAllMappings(st) == st.mappings

\* ---- PATTERNS (lines 311-320): the end (exclusive) of the match at position i, or 0 ----

IbanAlnum == AsciiUpper \cup DigitChars

\* /[A-Z]{2}\d{2}[A-Z0-9]{4}\d{7}[A-Z0-9]{0,16}/g
ibanMatchAt(s, i) ==
  IF /\ i + 14 <= Len(s)
     /\ \A k \in 0..1 : s[i + k] \in AsciiUpper
     /\ \A k \in 2..3 : s[i + k] \in DigitChars
     /\ \A k \in 4..7 : s[i + k] \in IbanAlnum
     /\ \A k \in 8..14 : s[i + k] \in DigitChars
  THEN LET more == {n \in 0..16 : /\ i + 14 + n <= Len(s)
                                  /\ \A k \in 1..n : s[i + 14 + k] \in IbanAlnum}
       IN  i + 15 + (CHOOSE n \in more : \A m \in more : m <= n)
  ELSE 0

EmailLocalChars == AsciiUpper \cup AsciiLower \cup DigitChars \cup {".", "_", "%", "+", "-"}

EmailDomainChars == AsciiUpper \cup AsciiLower \cup DigitChars \cup {".", "-"}

AsciiLetters == AsciiUpper \cup AsciiLower

\* length of the longest run of characters of `class` that starts at s[i]
runLength(s, i, class) ==
  LET ok == {n \in 0..(Len(s) - i + 1) : \A k \in 0..(n - 1) : s[i + k] \in class}
  IN  CHOOSE n \in ok : \A m \in ok : m <= n

\* /[a-zA-Z0-9._%+-]+@[a-zA-Z0-9.-]+\.[a-zA-Z]{2,}/g
emailMatchAt(s, i) ==
  LET l == runLength(s, i, EmailLocalChars)
      at == i + l
  IN  IF l = 0 \/ at > Len(s) \/ s[at] # "@" THEN 0
      ELSE LET d == runLength(s, at + 1, EmailDomainChars)
               \* the dots of the domain run that leave one character before them and
               \* two letters after them; backtracking finds the last one
               dots == {p \in (at + 2)..(at + d) :
                          s[p] = "." /\ runLength(s, p + 1, AsciiLetters) >= 2}
           IN  IF dots = {} THEN 0
               ELSE LET p == CHOOSE x \in dots : \A y \in dots : y <= x
                    IN  p + 1 + runLength(s, p + 1, AsciiLetters)

PhoneSeparators == {"-", ".", " "}

isDigitsAt(s, i, n) == i + n - 1 <= Len(s) /\ \A k \in 0..(n - 1) : s[i + k] \in DigitChars

optionalAt(s, i, class) == IF i <= Len(s) /\ s[i] \in class THEN i + 1 ELSE i

\* \(?\d{3}\)?[-.\s]?\d{3}[-.\s]?\d{4} at position i.  Every optional character is
\* followed by a digit, so taking it when it is there is the only way to match.
phoneCoreAt(s, i) ==
  LET p1 == optionalAt(s, i, {"("})
      p2 == optionalAt(s, p1 + 3, {")"})
      p3 == optionalAt(s, p2, PhoneSeparators)
      p4 == optionalAt(s, p3 + 3, PhoneSeparators)
  IN  IF isDigitsAt(s, p1, 3) /\ isDigitsAt(s, p3, 3) /\ isDigitsAt(s, p4, 4)
      THEN p4 + 4 ELSE 0

\* /(?:\+\d{1,3}[-.\s]?)?\(?\d{3}\)?[-.\s]?\d{3}[-.\s]?\d{4}/g: the optional prefix is
\* tried first, with the most digits first and its separator taken first
phoneMatchAt(s, i) ==
  LET tries ==
        IF i <= Len(s) /\ s[i] = "+"
        THEN LET after(n, sep) ==
                   IF ~isDigitsAt(s, i + 1, n) THEN 0
                   ELSE IF sep
                        THEN IF i + 1 + n <= Len(s) /\ s[i + 1 + n] \in PhoneSeparators
                             THEN phoneCoreAt(s, i + 2 + n) ELSE 0
                        ELSE phoneCoreAt(s, i + 1 + n)
             IN  <<after(3, TRUE), after(3, FALSE), after(2, TRUE), after(2, FALSE),
                   after(1, TRUE), after(1, FALSE), phoneCoreAt(s, i)>>
        ELSE <<phoneCoreAt(s, i)>>
      hits == {k \in DOMAIN tries : tries[k] # 0}
  IN  IF hits = {} THEN 0 ELSE tries[CHOOSE k \in hits : \A j \in hits : k <= j]

patternMatchAt(s, i, type) ==
  CASE type = "iban"  -> ibanMatchAt(s, i)
    [] type = "email" -> emailMatchAt(s, i)
    [] type = "phone" -> phoneMatchAt(s, i)

\* result.replace(PATTERNS[type], match => store.getOrCreate(match, type)) from
\* position i on: the text produced and the store after the callbacks
RECURSIVE replacePattern(_, _, _, _)

\* `prefix` put before the text of the result `rest`
prependText(prefix, rest) == [store |-> rest.store, text |-> prefix \o rest.text]

\* the callback returned g for the match that ends before e: the replacement goes on
\* from e with the store the callback left
replaceMatch(g, s, e, type) == prependText(g.value, replacePattern(g.store, s, e, type))

\* e is the end of the match at i, 0 when there is none
replacePatternAt(st, s, i, e, type) ==
  IF e = 0 THEN prependText(<<s[i]>>, replacePattern(st, s, i + 1, type))
  ELSE replaceMatch(getOrCreate(st, SubSeq(s, i, e - 1), type), s, e, type)

replacePattern(st, s, i, type) ==
  IF i > Len(s) THEN [store |-> st, text |-> <<>>]
  ELSE replacePatternAt(st, s, i, patternMatchAt(s, i, type), type)

\* result.replace(new RegExp(`\\b${escapedName}\\b`, 'gi'), replacement) from i on
RECURSIVE replaceName(_, _, _, _)

\* e is the end of the match at i, 0 when there is none
replaceNameAt(s, i, e, name, replacement) ==
  IF e = 0 THEN <<s[i]>> \o replaceName(s, i + 1, name, replacement)
  ELSE replacement \o replaceName(s, e, name, replacement)

replaceName(s, i, name, replacement) ==
  IF i > Len(s) THEN <<>>
  ELSE replaceNameAt(s, i, matchAltsAt(s, i, <<toLowerCase(name)>>), name, replacement)

\* the loop over personalNames of anonymizeText (lines 479-485), from the k-th name on
RECURSIVE replaceNames(_, _, _, _)

\* lines 481-483 for the k-th name: g is what store.getOrCreate(name, 'name') returned
replaceNamesWith(g, s, personalNames, k) ==
  replaceNames(g.store, replaceName(s, 1, personalNames[k], g.value), personalNames, k + 1)

replaceNames(st, s, personalNames, k) ==
  IF k > Len(personalNames) THEN [store |-> st, text |-> s]
  ELSE IF personalNames[k] # <<>> /\ Len(personalNames[k]) > 3
       THEN replaceNamesWith(getOrCreate(st, personalNames[k], "name"), s, personalNames, k)
       ELSE replaceNames(st, s, personalNames, k + 1)

\* the loop of lines 479-485 on the result r so far
replaceNamesIn(r, personalNames) == replaceNames(r.store, r.text, personalNames, 1)

\* one result.replace(PATTERNS[type], ...) of lines 464-476, on the result r so far
replacePatternIn(r, type) == replacePattern(r.store, r.text, 1, type)

anonymizeText(st, text, personalNames) ==
  IF text = <<>> THEN [store |-> st, text |-> text]
  ELSE replaceNamesIn(
         replacePatternIn(
           replacePatternIn(replacePatternIn([store |-> st, text |-> text], "iban"),
                            "email"),
           "phone"),
         personalNames)

\* name.replace(/\b(gmbh|ag|ltd|ug|kg|inc|co)\b/gi, '') from position i on
RECURSIVE removeLegalForms(_, _)

\* e is the end of the match at i, 0 when there is none
removeLegalFormsAt(s, i, e) ==
  IF e = 0 THEN <<s[i]>> \o removeLegalForms(s, i + 1) ELSE removeLegalForms(s, e)

removeLegalForms(s, i) ==
  IF i > Len(s) THEN <<>>
  ELSE removeLegalFormsAt(s, i,
         matchAltsAt(s, i, <<<<"g","m","b","h">>, <<"a","g">>, <<"l","t","d">>,
                             <<"u","g">>, <<"k","g">>, <<"i","n","c">>, <<"c","o">>>>))

cleanMerchantName(name) == trim(collapseSpaces(removeLegalForms(name, 1)))

\* the fields a Transaction adds to its RawTransaction, not yet set
NoId == <<>>

toTransaction(raw, id, recipient, recipientIban, description, merchant) ==
  [id |-> id,
   date |-> raw.date,
   description |-> description,
   amount |-> IF raw.amount < 0 THEN -raw.amount ELSE raw.amount,
   currency |-> raw.currency,
   category |-> raw.category,
   subcategory |-> raw.subcategory,
   recipient |-> recipient,
   recipientIban |-> recipientIban,
   referenceAccount |-> raw.referenceAccount,
   referenceAccountName |-> raw.referenceAccountName,
   isTransfer |-> raw.isTransfer,
   type |-> IF raw.amount < 0 THEN "expense" ELSE "income",
   merchant |-> merchant,
   isRecurring |-> FALSE,
   recurringFrequency |-> "none",
   isExcluded |-> FALSE,
   categorySource |-> IF raw.category # <<>> THEN "rule" ELSE "none",
   doubleBookingMatch |-> NoId]

merchantOf(raw) ==
  IF raw.recipient # <<>> /\ isLikelyBusiness(raw.recipient)
  THEN cleanMerchantName(raw.recipient) ELSE <<>>

\* first pass of anonymizeTransactions (lines 495-500): the Set personalNames in
\* insertion order
RECURSIVE collectPersonalNames(_, _)
collectPersonalNames(raws, acc) ==
  IF raws = <<>> THEN acc
  ELSE LET r == Head(raws).recipient
           seen == \E k \in DOMAIN acc : acc[k] = r
       IN  collectPersonalNames(Tail(raws),
             IF r # <<>> /\ Len(r) > 3 /\ ~isLikelyBusiness(r) /\ ~seen
             THEN Append(acc, r) ELSE acc)

\* the callback of rawTransactions.map (lines 503-537) for one row
\* anonymizedRecipient without the isLikelyBusiness test
anonymizeRecipientAll(st, raw) ==
  IF raw.recipient # <<>>
  THEN getOrCreate(st, raw.recipient, "name")
  ELSE [store |-> st, value |-> raw.recipient, threw |-> FALSE]

\* anonymizedRecipient with the branches of the isLikelyBusiness test exchanged
anonymizeRecipientInverted(st, raw) ==
  IF raw.recipient # <<>> /\ isLikelyBusiness(raw.recipient)
  THEN getOrCreate(st, raw.recipient, "name")
  ELSE [store |-> st, value |-> raw.recipient, threw |-> FALSE]

\* lines 505-509: anonymizedRecipient
anonymizeRecipient(st, raw) ==
  IF raw.recipient # <<>> /\ ~isLikelyBusiness(raw.recipient)
  THEN getOrCreate(st, raw.recipient, "name")
  ELSE [store |-> st, value |-> raw.recipient, threw |-> FALSE]

\* lines 510-512: anonymizedIban, on the store the recipient's call left
anonymizeIban(st, raw) ==
  IF raw.recipientIban # <<>>
  THEN getOrCreate(st, raw.recipientIban, "iban")
  ELSE [store |-> st, value |-> <<>>, threw |-> FALSE]

\* lines 513-536: the Transaction built from the anonymized recipient g1, the
\* anonymized IBAN g2 and the anonymized description d
anonymizedRow(raw, index, t, g1, g2, d) ==
  [store |-> d.store, threw |-> FALSE,
   tx |-> toTransaction(raw, <<t, index>>, g1.value, g2.value, d.text, merchantOf(raw))]

anonymizeRowFrom(raw, index, t, personalNames, g1, g2) ==
  IF g2.threw THEN [store |-> g2.store, threw |-> TRUE, tx |-> <<>>]
  ELSE anonymizedRow(raw, index, t, g1, g2,
                     anonymizeText(g2.store, raw.description, personalNames))

anonymizeRowAfter(raw, index, t, personalNames, g1) ==
  anonymizeRowFrom(raw, index, t, personalNames, g1, anonymizeIban(g1.store, raw))

anonymizeRow(st, raw, index, t, personalNames) ==
  anonymizeRowAfter(raw, index, t, personalNames, anonymizeRecipient(st, raw))

RECURSIVE anonymizeRows(_, _, _, _, _, _)

\* r is the callback's result for the row at `index`
anonymizeRowsAfter(r, raws, index, t, personalNames, acc) ==
  IF r.threw THEN [store |-> r.store, threw |-> TRUE, transactions |-> <<>>]
  ELSE anonymizeRows(r.store, raws, index + 1, t, personalNames, Append(acc, r.tx))

anonymizeRows(st, raws, index, t, personalNames, acc) ==
  IF index >= Len(raws) THEN [store |-> st, threw |-> FALSE, transactions |-> acc]
  ELSE anonymizeRowsAfter(anonymizeRow(st, raws[index + 1], index, t, personalNames),
                          raws, index, t, personalNames, acc)

\* lines 539-542: the AnonymizedData returned after the map r
anonymizedData(r) ==
  [store |-> r.store, threw |-> r.threw, transactions |-> r.transactions,
   mappings |-> IF r.threw THEN <<>> ELSE getAllMappings(r.store)]

\* anonymizeTransactions(rawTransactions), called on store st at time t: the store
\* after the call, whether it threw, and the AnonymizedData it returned
anonymizeTransactions(st, raws, t) ==
  anonymizedData(anonymizeRows(clear(st), raws, 0, t, collectPersonalNames(raws, <<>>),
                               <<>>))

processWithoutAnonymization(raws, t) ==
  [k \in 1..Len(raws) |->
     toTransaction(raws[k], <<t, k - 1>>, raws[k].recipient, raws[k].recipientIban,
                   raws[k].description, merchantOf(raws[k]))]

getOriginalValue(st, anonymized) == getOriginal(st, anonymized)

-----------------------------------------------------------------------------
(* Rule categorizer: web/src/lib/categorizer.ts                            *)

\* A rule's pattern /\b(a|b|...)\b/i is the sequence of its alternatives, each a
\* sequence of lower-case characters and of the tokens \s, \s*, \s+; a character
\* class [- ] and an optional character x? are written out as alternatives.
MERCHANT_RULES ==
  <<
    \* line 7: /\b(rewe|aldi|lidl|edeka|netto|penny|kaufland|real)\b/i
    [alts |-> <<<<"r","e","w","e">>, <<"a","l","d","i">>, <<"l","i","d","l">>, <<"e","d","e","k","a">>, <<"n","e","t","t","o">>, <<"p","e","n","n","y">>, <<"k","a","u","f","l","a","n","d">>, <<"r","e","a","l">>>>,
     category |-> <<"G","r","o","c","e","r","i","e","s">>, merchant |-> <<>>],
    \* line 8: /\b(dm[- ]drogerie|rossmann|müller)\b/i
    [alts |-> <<<<"d","m","-","d","r","o","g","e","r","i","e">>, <<"d","m"," ","d","r","o","g","e","r","i","e">>, <<"r","o","s","s","m","a","n","n">>, <<"m","ü","l","l","e","r">>>>,
     category |-> <<"G","r","o","c","e","r","i","e","s">>, merchant |-> <<>>],
    \* line 9: /\blebensmittel\b/i
    [alts |-> <<<<"l","e","b","e","n","s","m","i","t","t","e","l">>>>,
     category |-> <<"G","r","o","c","e","r","i","e","s">>, merchant |-> <<>>],
    \* line 12: /\b(lieferando|uber\s*eats|wolt|delivery\s*hero)\b/i
    [alts |-> <<<<"l","i","e","f","e","r","a","n","d","o">>, <<"u","b","e","r","\\s*","e","a","t","s">>, <<"w","o","l","t">>, <<"d","e","l","i","v","e","r","y","\\s*","h","e","r","o">>>>,
     category |-> <<"E","a","t","i","n","g"," ","O","u","t">>, merchant |-> <<"D","e","l","i","v","e","r","y"," ","S","e","r","v","i","c","e">>],
    \* line 13: /\b(mcdonalds|burger\s*king|subway|kfc|starbucks)\b/i
    [alts |-> <<<<"m","c","d","o","n","a","l","d","s">>, <<"b","u","r","g","e","r","\\s*","k","i","n","g">>, <<"s","u","b","w","a","y">>, <<"k","f","c">>, <<"s","t","a","r","b","u","c","k","s">>>>,
     category |-> <<"E","a","t","i","n","g"," ","O","u","t">>, merchant |-> <<>>],
    \* line 14: /\b(restaurant|cafe|coffee|bistro|pizza|kebab|sushi)\b/i
    [alts |-> <<<<"r","e","s","t","a","u","r","a","n","t">>, <<"c","a","f","e">>, <<"c","o","f","f","e","e">>, <<"b","i","s","t","r","o">>, <<"p","i","z","z","a">>, <<"k","e","b","a","b">>, <<"s","u","s","h","i">>>>,
     category |-> <<"E","a","t","i","n","g"," ","O","u","t">>, merchant |-> <<>>],
    \* line 15: /\blieferservice\b/i
    [alts |-> <<<<"l","i","e","f","e","r","s","e","r","v","i","c","e">>>>,
     category |-> <<"E","a","t","i","n","g"," ","O","u","t">>, merchant |-> <<>>],
    \* line 18: /\b(netflix|spotify|disney\+|amazon\s*prime|apple\s*music)\b/i
    [alts |-> <<<<"n","e","t","f","l","i","x">>, <<"s","p","o","t","i","f","y">>, <<"d","i","s","n","e","y","+">>, <<"a","m","a","z","o","n","\\s*","p","r","i","m","e">>, <<"a","p","p","l","e","\\s*","m","u","s","i","c">>>>,
     category |-> <<"S","u","b","s","c","r","i","p","t","i","o","n","s">>, merchant |-> <<>>],
    \* line 19: /\b(playstation|xbox|steam|nintendo|epic\s*games)\b/i
    [alts |-> <<<<"p","l","a","y","s","t","a","t","i","o","n">>, <<"x","b","o","x">>, <<"s","t","e","a","m">>, <<"n","i","n","t","e","n","d","o">>, <<"e","p","i","c","\\s*","g","a","m","e","s">>>>,
     category |-> <<"P","e","r","s","o","n","a","l"," ","E","n","t","e","r","t","a","i","n","m","e","n","t">>, merchant |-> <<>>],
    \* line 20: /\b(apple|itunes|google\s*play)\b/i
    [alts |-> <<<<"a","p","p","l","e">>, <<"i","t","u","n","e","s">>, <<"g","o","o","g","l","e","\\s*","p","l","a","y">>>>,
     category |-> <<"P","e","r","s","o","n","a","l"," ","E","n","t","e","r","t","a","i","n","m","e","n","t">>, merchant |-> <<>>],
    \* line 21: /\b(sony\s*interactive)\b/i
    [alts |-> <<<<"s","o","n","y","\\s*","i","n","t","e","r","a","c","t","i","v","e">>>>,
     category |-> <<"P","e","r","s","o","n","a","l"," ","E","n","t","e","r","t","a","i","n","m","e","n","t">>, merchant |-> <<>>],
    \* line 22: /\bin-app\b/i
    [alts |-> <<<<"i","n","-","a","p","p">>>>,
     category |-> <<"P","e","r","s","o","n","a","l"," ","E","n","t","e","r","t","a","i","n","m","e","n","t">>, merchant |-> <<>>],
    \* line 25: /\b(amazon|zalando|otto|ebay|mediamarkt|saturn)\b/i
    [alts |-> <<<<"a","m","a","z","o","n">>, <<"z","a","l","a","n","d","o">>, <<"o","t","t","o">>, <<"e","b","a","y">>, <<"m","e","d","i","a","m","a","r","k","t">>, <<"s","a","t","u","r","n">>>>,
     category |-> <<"S","h","o","p","p","i","n","g">>, merchant |-> <<"O","n","l","i","n","e"," ","S","h","o","p","p","i","n","g">>],
    \* line 26: /\b(h&m|zara|primark|c&a|tk\s*maxx|zeeman)\b/i
    [alts |-> <<<<"h","&","m">>, <<"z","a","r","a">>, <<"p","r","i","m","a","r","k">>, <<"c","&","a">>, <<"t","k","\\s*","m","a","x","x">>, <<"z","e","e","m","a","n">>>>,
     category |-> <<"S","h","o","p","p","i","n","g">>, merchant |-> <<>>],
    \* line 27: /\b(ikea|möbel)\b/i
    [alts |-> <<<<"i","k","e","a">>, <<"m","ö","b","e","l">>>>,
     category |-> <<"S","h","o","p","p","i","n","g">>, merchant |-> <<>>],
    \* line 28: /\b(flaconi|douglas)\b/i
    [alts |-> <<<<"f","l","a","c","o","n","i">>, <<"d","o","u","g","l","a","s">>>>,
     category |-> <<"S","h","o","p","p","i","n","g">>, merchant |-> <<>>],
    \* line 31: /\b(miete|rent|wohnung|apartment)\b/i
    [alts |-> <<<<"m","i","e","t","e">>, <<"r","e","n","t">>, <<"w","o","h","n","u","n","g">>, <<"a","p","a","r","t","m","e","n","t">>>>,
     category |-> <<"R","e","n","t">>, merchant |-> <<>>],
    \* line 34: /\b(deutsche\s*bahn|db\s|bvg|mvv|hvv|rmv|vbb)\b/i
    [alts |-> <<<<"d","e","u","t","s","c","h","e","\\s*","b","a","h","n">>, <<"d","b","\\s">>, <<"b","v","g">>, <<"m","v","v">>, <<"h","v","v">>, <<"r","m","v">>, <<"v","b","b">>>>,
     category |-> <<"P","u","b","l","i","c"," ","T","r","a","n","s","p","o","r","t">>, merchant |-> <<>>],
    \* line 35: /\b(uber|bolt|freenow|taxi)\b/i
    [alts |-> <<<<"u","b","e","r">>, <<"b","o","l","t">>, <<"f","r","e","e","n","o","w">>, <<"t","a","x","i">>>>,
     category |-> <<"P","u","b","l","i","c"," ","T","r","a","n","s","p","o","r","t">>, merchant |-> <<>>],
    \* line 36: /\b(shell|aral|esso|total|tankstelle)\b/i
    [alts |-> <<<<"s","h","e","l","l">>, <<"a","r","a","l">>, <<"e","s","s","o">>, <<"t","o","t","a","l">>, <<"t","a","n","k","s","t","e","l","l","e">>>>,
     category |-> <<"C","a","r">>, merchant |-> <<>>],
    \* line 37: /\b(parkhaus|parking)\b/i
    [alts |-> <<<<"p","a","r","k","h","a","u","s">>, <<"p","a","r","k","i","n","g">>>>,
     category |-> <<"C","a","r">>, merchant |-> <<>>],
    \* line 38: /\bführerschein\b/i
    [alts |-> <<<<"f","ü","h","r","e","r","s","c","h","e","i","n">>>>,
     category |-> <<"C","a","r">>, merchant |-> <<>>],
    \* line 41: /\b(rundfunk|ard|zdf|beitragsservice)\b/i
    [alts |-> <<<<"r","u","n","d","f","u","n","k">>, <<"a","r","d">>, <<"z","d","f">>, <<"b","e","i","t","r","a","g","s","s","e","r","v","i","c","e">>>>,
     category |-> <<"R","a","d","i","o"," ","T","a","x">>, merchant |-> <<>>],
    \* line 42: /\b(telekom|vodafone|o2|congstar|aldi\s*talk)\b/i
    [alts |-> <<<<"t","e","l","e","k","o","m">>, <<"v","o","d","a","f","o","n","e">>, <<"o","2">>, <<"c","o","n","g","s","t","a","r">>, <<"a","l","d","i","\\s*","t","a","l","k">>>>,
     category |-> <<"I","n","t","e","r","n","e","t">>, merchant |-> <<>>],
    \* line 43: /\b(strom|vattenfall|eon|enercity|stadtwerke)\b/i
    [alts |-> <<<<"s","t","r","o","m">>, <<"v","a","t","t","e","n","f","a","l","l">>, <<"e","o","n">>, <<"e","n","e","r","c","i","t","y">>, <<"s","t","a","d","t","w","e","r","k","e">>>>,
     category |-> <<"E","l","e","c","t","r","i","c","i","t","y">>, merchant |-> <<>>],
    \* line 46: /\b(allianz|ergo|huk|axa|versicherung|getsafe)\b/i
    [alts |-> <<<<"a","l","l","i","a","n","z">>, <<"e","r","g","o">>, <<"h","u","k">>, <<"a","x","a">>, <<"v","e","r","s","i","c","h","e","r","u","n","g">>, <<"g","e","t","s","a","f","e">>>>,
     category |-> <<"I","n","s","u","r","a","n","c","e">>, merchant |-> <<>>],
    \* line 49: /\b(apotheke|pharmacy|arzt|doctor|klinik|krankenhaus)\b/i
    [alts |-> <<<<"a","p","o","t","h","e","k","e">>, <<"p","h","a","r","m","a","c","y">>, <<"a","r","z","t">>, <<"d","o","c","t","o","r">>, <<"k","l","i","n","i","k">>, <<"k","r","a","n","k","e","n","h","a","u","s">>>>,
     category |-> <<"H","e","a","l","t","h"," ","&"," ","W","e","l","l","b","e","i","n","g">>, merchant |-> <<>>],
    \* line 50: /\b(fitnessstudio|gym|mcfit|fitness\s*first)\b/i
    [alts |-> <<<<"f","i","t","n","e","s","s","s","t","u","d","i","o">>, <<"g","y","m">>, <<"m","c","f","i","t">>, <<"f","i","t","n","e","s","s","\\s*","f","i","r","s","t">>>>,
     category |-> <<"H","e","a","l","t","h"," ","&"," ","W","e","l","l","b","e","i","n","g">>, merchant |-> <<>>],
    \* line 53: /\b(scalable\s*capital|trade\s*republic|comdirect|ing\s*diba)\b/i
    [alts |-> <<<<"s","c","a","l","a","b","l","e","\\s*","c","a","p","i","t","a","l">>, <<"t","r","a","d","e","\\s*","r","e","p","u","b","l","i","c">>, <<"c","o","m","d","i","r","e","c","t">>, <<"i","n","g","\\s*","d","i","b","a">>>>,
     category |-> <<"I","n","v","e","s","t","m","e","n","t">>, merchant |-> <<>>],
    \* line 54: /\b(sparplan|etf|depot|kapitalanlage)\b/i
    [alts |-> <<<<"s","p","a","r","p","l","a","n">>, <<"e","t","f">>, <<"d","e","p","o","t">>, <<"k","a","p","i","t","a","l","a","n","l","a","g","e">>>>,
     category |-> <<"I","n","v","e","s","t","m","e","n","t">>, merchant |-> <<>>],
    \* line 57: /\b(lohn|gehalt|salary|wage)\b/i
    [alts |-> <<<<"l","o","h","n">>, <<"g","e","h","a","l","t">>, <<"s","a","l","a","r","y">>, <<"w","a","g","e">>>>,
     category |-> <<"I","n","c","o","m","e">>, merchant |-> <<>>],
    \* line 58: /\b(erstattung|refund|rückerstattung)\b/i
    [alts |-> <<<<"e","r","s","t","a","t","t","u","n","g">>, <<"r","e","f","u","n","d">>, <<"r","ü","c","k","e","r","s","t","a","t","t","u","n","g">>>>,
     category |-> <<"I","n","c","o","m","e">>, merchant |-> <<>>],
    \* line 59: /\b(finanzamt)\b/i
    [alts |-> <<<<"f","i","n","a","n","z","a","m","t">>>>,
     category |-> <<"I","n","c","o","m","e">>, merchant |-> <<>>],
    \* line 62: /\b(lufthansa|ryanair|easyjet|booking\.com|airbnb|hotel)\b/i
    [alts |-> <<<<"l","u","f","t","h","a","n","s","a">>, <<"r","y","a","n","a","i","r">>, <<"e","a","s","y","j","e","t">>, <<"b","o","o","k","i","n","g",".","c","o","m">>, <<"a","i","r","b","n","b">>, <<"h","o","t","e","l">>>>,
     category |-> <<"T","r","a","v","e","l">>, merchant |-> <<>>],
    \* line 63: /\b(flug|flight|reise|urlaub)\b/i
    [alts |-> <<<<"f","l","u","g">>, <<"f","l","i","g","h","t">>, <<"r","e","i","s","e">>, <<"u","r","l","a","u","b">>>>,
     category |-> <<"T","r","a","v","e","l">>, merchant |-> <<>>]
  >>

TRANSFER_PATTERNS ==
  <<
    \* line 68: /\bsent\s+from\b/i
    <<<<"s","e","n","t","\\s+","f","r","o","m">>>>,
    \* line 69: /\bmoved\s+(to|from)\b/i
    <<<<"m","o","v","e","d","\\s+","t","o">>, <<"m","o","v","e","d","\\s+","f","r","o","m">>>>,
    \* line 70: /\büberweisungen?\b/i
    <<<<"ü","b","e","r","w","e","i","s","u","n","g","e","n">>, <<"ü","b","e","r","w","e","i","s","u","n","g","e">>>>,
    \* line 71: /\bumbuchung\b/i
    <<<<"u","m","b","u","c","h","u","n","g">>>>
  >>

Transfer == <<"T","r","a","n","s","f","e","r">>

Other == <<"O","t","h","e","r">>

NormalizedChars == AsciiLower \cup DigitChars

normalizeMerchant(merchant) ==
  collapseSpaces(SelectSeq(trim(toLowerCase(merchant)),
                           LAMBDA c : c \in NormalizedChars \/ IsSpace(c)))

\* learnedMappings = new Map(mappings.map(m => [normalizeMerchant(m.merchant),
\* m.category])): the entries in insertion order; a repeated key keeps its place and
\* takes the later value
RECURSIVE buildLearnedMap(_, _)
buildLearnedMap(mappings, acc) ==
  IF mappings = <<>> THEN acc
  ELSE LET key == normalizeMerchant(Head(mappings).merchant)
           entry == [merchant |-> key, category |-> Head(mappings).category]
           at == {k \in DOMAIN acc : acc[k].merchant = key}
       IN  buildLearnedMap(Tail(mappings),
             IF at = {} THEN Append(acc, entry)
             ELSE [acc EXCEPT ![CHOOSE k \in at : TRUE] = entry])

\* learnedMappings.get(key); a missing key gives the empty (falsy) value
learnedGet(learned, key) ==
  IF \E k \in DOMAIN learned : learned[k].merchant = key
  THEN learned[CHOOSE k \in DOMAIN learned : learned[k].merchant = key].category
  ELSE <<>>

suffixes ==
  <<
    <<" ","g","m","b","h">>, <<" ","a","g">>, <<" ","k","g">>, <<" ","l","t","d">>,
    <<" ","i","n","c">>, <<" ","c","o">>, <<" ","u","g">>, <<" ","m","b","h">>,
    <<" ","g","b","r">>, <<" ","o","h","g">>, <<" ","s","e">>
  >>

prefixes ==
  <<
    <<"p","a","y","p","a","l"," ">>, <<"k","l","a","r","n","a"," ">>,
    <<"a","m","a","z","o","n"," ">>, <<"e","c"," ">>, <<"v","i","s","a"," ">>
  >>

\* [...new Set(list)]: the first occurrence of every element, in order
RECURSIVE dedupe(_, _)
dedupe(list, acc) ==
  IF list = <<>> THEN acc
  ELSE dedupe(Tail(list),
              IF \E k \in DOMAIN acc : acc[k] = Head(list) THEN acc
              ELSE Append(acc, Head(list)))

RECURSIVE flatten(_)
flatten(lists) == IF lists = <<>> THEN <<>> ELSE Head(lists) \o flatten(Tail(lists))

getMerchantVariations(text) ==
  LET normalized == normalizeMerchant(text)
      stripSuffix == [k \in DOMAIN suffixes |->
        IF endsWith(normalized, suffixes[k])
        THEN <<trim(SubSeq(normalized, 1, Len(normalized) - Len(suffixes[k])))>>
        ELSE <<>>]
      stripPrefix == [k \in DOMAIN prefixes |->
        IF startsWith(normalized, prefixes[k])
        THEN <<trim(sliceFrom(normalized, Len(prefixes[k])))>>
        ELSE <<>>]
      variations == <<normalized>> \o flatten(stripSuffix) \o flatten(stripPrefix)
  IN  dedupe(SelectSeq(variations, LAMBDA v : Len(v) > 2), <<>>)

\* step 3 of findLearnedCategory (lines 134-139): the first entry contained in the
\* normalized description; found tells a hit from no hit (the category may be empty)
fuzzyDescriptionMatch(learned, tx) ==
  LET descNormalized == normalizeMerchant(tx.description)
      hits == {k \in DOMAIN learned :
                 includes(descNormalized, learned[k].merchant) /\ Len(learned[k].merchant) > 3}
  IN  IF hits = {} THEN [found |-> FALSE, category |-> <<>>]
      ELSE [found |-> TRUE,
            category |-> learned[CHOOSE k \in hits : \A j \in hits : k <= j].category]

\* step 4 for one variation (lines 146-157)
variationMatch(learned, variation) ==
  LET exact == learnedGet(learned, variation)
      hits == {k \in DOMAIN learned :
                 \/ includes(variation, learned[k].merchant) /\ Len(learned[k].merchant) > 3
                 \/ includes(learned[k].merchant, variation) /\ Len(variation) > 3}
  IN  IF exact # <<>> THEN [found |-> TRUE, category |-> exact]
      ELSE IF hits = {} THEN [found |-> FALSE, category |-> <<>>]
      ELSE [found |-> TRUE,
            category |-> learned[CHOOSE k \in hits : \A j \in hits : k <= j].category]

\* the first hit among a sequence of [found, category] results
firstFound(results) ==
  LET hits == {k \in DOMAIN results : results[k].found}
  IN  IF hits = {} THEN [found |-> FALSE, category |-> <<>>]
      ELSE results[CHOOSE k \in hits : \A j \in hits : k <= j]

\* findLearnedCategory(tx) with the cache `learned`; null is the empty value
findLearnedCategory(learned, tx) ==
  IF Len(learned) = 0 THEN <<>>
  ELSE LET byMerchant == IF tx.merchant # <<>>
                         THEN learnedGet(learned, normalizeMerchant(tx.merchant)) ELSE <<>>
           byRecipient == IF tx.recipient # <<>>
                          THEN learnedGet(learned, normalizeMerchant(tx.recipient)) ELSE <<>>
           fuzzy == fuzzyDescriptionMatch(learned, tx)
           textsToCheck == SelectSeq(<<tx.merchant, tx.recipient, tx.description>>,
                                     LAMBDA s : s # <<>>)
           ofText(text) ==
             LET vs == getMerchantVariations(text)
             IN  firstFound([k \in DOMAIN vs |-> variationMatch(learned, vs[k])])
           byVariation == firstFound([k \in DOMAIN textsToCheck |-> ofText(textsToCheck[k])])
       IN  IF byMerchant # <<>> THEN byMerchant
           ELSE IF byRecipient # <<>> THEN byRecipient
           ELSE IF fuzzy.found THEN fuzzy.category
           ELSE byVariation.category

GERMAN_CATEGORY_MAP ==
  {
    <<<<"E","s","s","e","n"," ","&"," ","T","r","i","n","k","e","n","/","L","e","b","e","n","s","m","i","t","t","e","l">>, <<"G","r","o","c","e","r","i","e","s">>>>,
    <<<<"E","s","s","e","n"," ","&"," ","T","r","i","n","k","e","n","/","L","i","e","f","e","r","s","e","r","v","i","c","e">>, <<"E","a","t","i","n","g"," ","O","u","t">>>>,
    <<<<"E","s","s","e","n"," ","&"," ","T","r","i","n","k","e","n">>, <<"G","r","o","c","e","r","i","e","s">>>>,
    <<<<"W","o","h","n","e","n","/","R","u","n","d","f","u","n","k","g","e","b","u","e","h","r","e","n">>, <<"R","a","d","i","o"," ","T","a","x">>>>,
    <<<<"W","o","h","n","e","n","/","I","n","t","e","r","n","e","t"," ","&"," ","T","e","l","e","f","o","n">>, <<"I","n","t","e","r","n","e","t">>>>,
    <<<<"W","o","h","n","e","n","/","M","i","e","t","e">>, <<"R","e","n","t">>>>,
    <<<<"W","o","h","n","e","n","/","S","t","r","o","m">>, <<"E","l","e","c","t","r","i","c","i","t","y">>>>,
    <<<<"W","o","h","n","e","n">>, <<"R","e","n","t">>>>,
    <<<<"L","i","f","e","s","t","y","l","e","/","S","h","o","p","p","i","n","g">>, <<"S","h","o","p","p","i","n","g">>>>,
    <<<<"L","i","f","e","s","t","y","l","e","/","B","e","k","l","e","i","d","u","n","g">>, <<"S","h","o","p","p","i","n","g">>>>,
    <<<<"L","i","f","e","s","t","y","l","e","/","M","o","b","i","l","f","u","n","k">>, <<"I","n","t","e","r","n","e","t">>>>,
    <<<<"L","i","f","e","s","t","y","l","e","/","P","r","i","m","e","-","M","i","t","g","l","i","e","d","s","c","h","a","f","t">>, <<"S","u","b","s","c","r","i","p","t","i","o","n","s">>>>,
    <<<<"L","i","f","e","s","t","y","l","e","/","S","o","n","s","t","i","g","e","r"," ","L","i","f","e","s","t","y","l","e">>, <<"S","h","o","p","p","i","n","g">>>>,
    <<<<"L","i","f","e","s","t","y","l","e">>, <<"S","h","o","p","p","i","n","g">>>>,
    <<<<"F","r","e","i","z","e","i","t","/","I","n","-","A","p","p","-","K","a","e","u","f","e">>, <<"P","e","r","s","o","n","a","l"," ","E","n","t","e","r","t","a","i","n","m","e","n","t">>>>,
    <<<<"F","r","e","i","z","e","i","t">>, <<"P","e","r","s","o","n","a","l"," ","E","n","t","e","r","t","a","i","n","m","e","n","t">>>>,
    <<<<"G","e","s","u","n","d","h","e","i","t","/","A","p","o","t","h","e","k","e">>, <<"H","e","a","l","t","h"," ","&"," ","W","e","l","l","b","e","i","n","g">>>>,
    <<<<"G","e","s","u","n","d","h","e","i","t">>, <<"H","e","a","l","t","h"," ","&"," ","W","e","l","l","b","e","i","n","g">>>>,
    <<<<"M","o","b","i","l","i","t","a","e","t","/","F","u","e","h","r","e","r","s","c","h","e","i","n">>, <<"C","a","r">>>>,
    <<<<"M","o","b","i","l","i","t","a","e","t","/","A","u","t","o">>, <<"C","a","r">>>>,
    <<<<"M","o","b","i","l","i","t","a","e","t">>, <<"P","u","b","l","i","c"," ","T","r","a","n","s","p","o","r","t">>>>,
    <<<<"V","e","r","s","i","c","h","e","r","u","n","g","e","n","/","S","o","n","s","t","i","g","e"," ","S","a","c","h","v","e","r","s","i","c","h","e","r","u","n","g">>, <<"I","n","s","u","r","a","n","c","e">>>>,
    <<<<"V","e","r","s","i","c","h","e","r","u","n","g","e","n">>, <<"I","n","s","u","r","a","n","c","e">>>>,
    <<<<"S","p","a","r","e","n","/","K","a","p","i","t","a","l","a","n","l","a","g","e">>, <<"I","n","v","e","s","t","m","e","n","t">>>>,
    <<<<"S","p","a","r","e","n","/","S","p","a","r","p","l","a","n">>, <<"I","n","v","e","s","t","m","e","n","t">>>>,
    <<<<"S","p","a","r","e","n">>, <<"S","a","v","i","n","g","s">>>>,
    <<<<"F","i","n","a","n","z","e","n","/","I","n","v","e","s","t","m","e","n","t">>, <<"I","n","v","e","s","t","m","e","n","t">>>>,
    <<<<"F","i","n","a","n","z","e","n","/","S","t","e","u","e","r","n">>, <<"O","t","h","e","r">>>>,
    <<<<"F","i","n","a","n","z","e","n">>, <<"O","t","h","e","r">>>>,
    <<<<"E","i","n","n","a","h","m","e","n","/","L","o","h","n"," ","/"," ","G","e","h","a","l","t">>, <<"I","n","c","o","m","e">>>>,
    <<<<"E","i","n","n","a","h","m","e","n","/","S","o","n","s","t","i","g","e"," ","E","i","n","n","a","h","m","e","n">>, <<"I","n","c","o","m","e">>>>,
    <<<<"E","i","n","n","a","h","m","e","n">>, <<"I","n","c","o","m","e">>>>,
    <<<<"S","o","n","s","t","i","g","e","s","/","S","o","n","s","t","i","g","e"," ","A","u","s","g","a","b","e","n">>, <<"O","t","h","e","r">>>>,
    <<<<"S","o","n","s","t","i","g","e","s">>, <<"O","t","h","e","r">>>>,
    <<<<"D","r","o","g","e","r","i","e","/","D","r","o","g","e","r","i","e">>, <<"G","r","o","c","e","r","i","e","s">>>>,
    <<<<"D","r","o","g","e","r","i","e">>, <<"G","r","o","c","e","r","i","e","s">>>>
  }

\* GERMAN_CATEGORY_MAP is an object literal (line 236): besides its own keys it has
\* the properties it inherits from Object.prototype
ObjectPrototypeKeys ==
  {<<"c","o","n","s","t","r","u","c","t","o","r">>, <<"t","o","S","t","r","i","n","g">>,
   <<"t","o","L","o","c","a","l","e","S","t","r","i","n","g">>,
   <<"v","a","l","u","e","O","f">>,
   <<"h","a","s","O","w","n","P","r","o","p","e","r","t","y">>,
   <<"i","s","P","r","o","t","o","t","y","p","e","O","f">>,
   <<"p","r","o","p","e","r","t","y","I","s","E","n","u","m","e","r","a","b","l","e">>,
   <<"_","_","p","r","o","t","o","_","_">>,
   <<"_","_","d","e","f","i","n","e","G","e","t","t","e","r","_","_">>,
   <<"_","_","d","e","f","i","n","e","S","e","t","t","e","r","_","_">>,
   <<"_","_","l","o","o","k","u","p","G","e","t","t","e","r","_","_">>,
   <<"_","_","l","o","o","k","u","p","S","e","t","t","e","r","_","_">>}

\* the value of an inherited property: a function or an object, truthy and not a
\* string; it is written as a sequence of one element that is not a character
InheritedProperty == <<"[Object.prototype property]">>

\* GERMAN_CATEGORY_MAP[key]; undefined is the empty value
germanLookup(key) ==
  IF \E p \in GERMAN_CATEGORY_MAP : p[1] = key
  THEN (CHOOSE p \in GERMAN_CATEGORY_MAP : p[1] = key)[2]
  ELSE IF key \in ObjectPrototypeKeys THEN InheritedProperty
  ELSE <<>>

mapGermanCategory(category, subcategory) ==
  IF category = <<>> THEN <<>>
  ELSE LET combined == IF subcategory # <<>> THEN category \o <<"/">> \o subcategory
                       ELSE category
       IN  IF germanLookup(combined) # <<>> THEN germanLookup(combined)
           ELSE germanLookup(category)

\* text.match(pattern)[0] with its first letter in upper case and the rest in lower
\* case; the match is the leftmost one
extractMerchant(text, alts) ==
  LET starts == {i \in 1..Len(text) : matchAltsAt(text, i, alts) # 0}
  IN  IF starts = {} THEN <<>>
      ELSE LET i == CHOOSE x \in starts : \A y \in starts : x <= y
               m == SubSeq(text, i, matchAltsAt(text, i, alts) - 1)
           IN  <<toUpperChar(m[1])>> \o toLowerCase(Tail(m))

textToMatch(tx) ==
  tx.description \o <<" ">> \o tx.recipient \o <<" ">> \o tx.category \o <<" ">>
    \o tx.subcategory

\* the index of the first of MERCHANT_RULES whose pattern tests true, 0 when none does
firstRule(text) ==
  LET matching == {k \in DOMAIN MERCHANT_RULES : regexTest(text, MERCHANT_RULES[k].alts)}
  IN  IF matching = {} THEN 0 ELSE CHOOSE k \in matching : \A j \in matching : k <= j

\* lines 204-209: the transaction the matching rule returns
applyRule(tx, rule, text) ==
  [tx EXCEPT !.category = rule.category,
             !.merchant = IF rule.merchant # <<>> THEN rule.merchant
                          ELSE extractMerchant(text, rule.alts),
             !.categorySource = "rule"]

\* steps 3 and 4 (lines 199-218): r is the index of the first matching rule
categorizeByRule(tx, mappedCategory, text, r) ==
  IF r # 0 THEN applyRule(tx, MERCHANT_RULES[r], text)
  ELSE [tx EXCEPT !.category = IF mappedCategory # <<>> THEN mappedCategory ELSE Other,
                  !.categorySource = IF tx.category # <<>> THEN "rule" ELSE "none"]

\* steps 2 to 4 with the merchant rules tried before the translated source category
categorizeMappedRulesFirst(tx, mappedCategory) ==
  IF firstRule(textToMatch(tx)) = 0 /\ mappedCategory # <<>> /\ mappedCategory # Other
  THEN [tx EXCEPT !.category = mappedCategory, !.categorySource = "rule"]
  ELSE categorizeByRule(tx, mappedCategory, textToMatch(tx), firstRule(textToMatch(tx)))

\* step 2 (lines 188-197), then steps 3 and 4
categorizeMapped(tx, mappedCategory) ==
  IF mappedCategory # <<>> /\ mappedCategory # Other
  THEN [tx EXCEPT !.category = mappedCategory, !.categorySource = "rule"]
  ELSE categorizeByRule(tx, mappedCategory, textToMatch(tx), firstRule(textToMatch(tx)))

\* step 1 (lines 178-186), then the later steps
categorizeLearned(tx, learnedCategory) ==
  IF learnedCategory # <<>>
  THEN [tx EXCEPT !.category = learnedCategory, !.categorySource = "learned"]
  ELSE categorizeMapped(tx, mapGermanCategory(tx.category, tx.subcategory))

\* the callback with the learned mappings consulted before the transfer tests
categorizeLearnedFirst(learned, tx) ==
  IF findLearnedCategory(learned, tx) # <<>>
  THEN [tx EXCEPT !.category = findLearnedCategory(learned, tx),
                  !.categorySource = "learned"]
  ELSE IF tx.isTransfer
  THEN [tx EXCEPT !.category = Transfer, !.categorySource = "rule"]
  ELSE IF \E k \in DOMAIN TRANSFER_PATTERNS : regexTest(tx.description, TRANSFER_PATTERNS[k])
  THEN [tx EXCEPT !.category = Transfer, !.isTransfer = TRUE, !.categorySource = "rule"]
  ELSE categorizeMapped(tx, mapGermanCategory(tx.category, tx.subcategory))

\* the callback of transactions.map in categorizeWithRules (lines 165-219)
categorize(learned, tx) ==
  IF tx.isTransfer
  THEN [tx EXCEPT !.category = Transfer, !.categorySource = "rule"]
  ELSE IF \E k \in DOMAIN TRANSFER_PATTERNS : regexTest(tx.description, TRANSFER_PATTERNS[k])
  THEN [tx EXCEPT !.category = Transfer, !.isTransfer = TRUE, !.categorySource = "rule"]
  ELSE categorizeLearned(tx, findLearnedCategory(learned, tx))

categorizeWithRules(learned, txs) == [k \in DOMAIN txs |-> categorize(learned, txs[k])]

setLearnedMappings(mappings) == buildLearnedMap(mappings, <<>>)

\* lines 300-318
EXPENSE_CATEGORIES ==
  <<<<"R","e","n","t">>, <<"E","a","t","i","n","g"," ","O","u","t">>,
   <<"P","e","r","s","o","n","a","l"," ","E","n","t","e","r","t","a","i","n","m","e","n","t">>,
   <<"S","u","b","s","c","r","i","p","t","i","o","n","s">>, <<"C","a","r">>,
   <<"P","u","b","l","i","c"," ","T","r","a","n","s","p","o","r","t">>,
   <<"I","n","t","e","r","n","e","t">>, <<"E","l","e","c","t","r","i","c","i","t","y">>,
   <<"I","n","s","u","r","a","n","c","e">>, <<"T","r","a","v","e","l">>,
   <<"G","r","o","c","e","r","i","e","s">>, <<"F","a","m","i","l","y">>,
   <<"R","a","d","i","o"," ","T","a","x">>,
   <<"H","e","a","l","t","h"," ","&"," ","W","e","l","l","b","e","i","n","g">>,
   <<"S","h","o","p","p","i","n","g">>, <<"O","t","h","e","r">>, <<"G","i","f","t","s">>>>

\* lines 321-327
AVAILABLE_CATEGORIES ==
  EXPENSE_CATEGORIES
    \o <<<<"I","n","c","o","m","e">>, <<"S","a","v","i","n","g","s">>,
       <<"I","n","v","e","s","t","m","e","n","t">>, <<"T","r","a","n","s","f","e","r">>>>

-----------------------------------------------------------------------------
(* Internal-transfer detector: web/src/lib/double-booking.ts               *)

transferKeywords ==
  <<
    <<"s","e","n","t"," ","f","r","o","m"," ","n","2","6">>,
    <<"m","o","v","e","d"," ","t","o">>, <<"m","o","v","e","d"," ","f","r","o","m">>,
    <<"u","m","b","u","c","h","u","n","g">>, <<"ü","b","e","r","t","r","a","g">>,
    <<"i","n","t","e","r","n","a","l"," ","t","r","a","n","s","f","e","r">>,
    <<"f","r","o","m"," ","y","o","u","r"," ","e","u","r"," ","b","a","l","a","n","c","e">>,
    <<"t","o"," ","y","o","u","r"," ","e","u","r"," ","b","a","l","a","n","c","e">>,
    <<"f","r","o","m"," ","m","a","i","n"," ","a","c","c","o","u","n","t">>,
    <<"t","o"," ","m","a","i","n"," ","a","c","c","o","u","n","t">>,
    <<"f","r","o","m"," ","e","u","r","o"," ","-"," ","k","o","n","t","o">>,
    <<"t","o"," ","e","u","r","o"," ","-"," ","k","o","n","t","o">>,
    <<"f","r","o","m"," ","t","r","a","v","e","l"," ","f","u","n","d">>,
    <<"t","o"," ","t","r","a","v","e","l"," ","f","u","n","d">>,
    <<"f","r","o","m"," ","d","r","i","v","e","r">>, <<"t","o"," ","d","r","i","v","e","r">>
  >>

\* isInternalTransfer without the comparison with the account names
isInternalTransferNoNames(tx, userAccounts, userAccountNames) ==
  \/ tx.isTransfer
  \/ \E account \in userAccounts :
       \/ includes(toLowerCase(tx.recipientIban), account)
       \/ includes(toLowerCase(tx.recipient), account)
  \/ \E k \in DOMAIN transferKeywords :
       includes(toLowerCase(tx.description), transferKeywords[k])

\* isInternalTransfer(tx, userAccounts, userAccountNames), lines 106-172
isInternalTransfer(tx, userAccounts, userAccountNames) ==
  LET description == toLowerCase(tx.description)
      recipient == toLowerCase(tx.recipient)
      recipientIban == toLowerCase(tx.recipientIban)
  IN  \/ tx.isTransfer
      \/ \E account \in userAccounts :
           \/ includes(recipientIban, account)
           \/ includes(recipient, account)
           \/ Len(account) > 6 /\ includes(description, account)
      \/ \E k \in DOMAIN transferKeywords : includes(description, transferKeywords[k])
      \/ \E accountName \in userAccountNames :
           Len(accountName) > 3 /\ includes(recipient, accountName)

absDiff(a, b) == IF a >= b THEN a - b ELSE b - a

\* The pairs (larger, smaller) of amounts in cents, one cent apart, whose difference
\* computed in IEEE doubles on the amounts in currency units is greater than the
\* double 0.01 (1.01 - 1.00 = 0.010000000000000009, while 50.01 - 50.00 =
\* 0.00999999999999801): listed for the amounts the inputs use.
DoubleDiffAboveCent == {<<101, 100>>}

\* the comparison of line 62 with the tolerance taken as 100 currency units
amountsDifferLoose(a, b) == absDiff(a, b) > 10000

\* Math.abs(expense.amount - income.amount) > 0.01, line 62
amountsDiffer(a, b) ==
  \/ absDiff(a, b) > 1
  \/ absDiff(a, b) = 1 /\ <<IF a >= b THEN a ELSE b, IF a >= b THEN b ELSE a>> \in DoubleDiffAboveCent

\* the search of lines 58-73 without the test that the income is not yet paired
firstMatchAny(expense, incomes, pairedIds) ==
  LET ok == {k \in DOMAIN incomes : ~amountsDiffer(expense.amount, incomes[k].amount)}
  IN  IF ok = {} THEN 0 ELSE CHOOSE k \in ok : \A j \in ok : k <= j

\* the search of lines 58-73 taking the last income that fits
firstMatchLast(expense, incomes, pairedIds) ==
  LET ok == {k \in DOMAIN incomes :
               /\ incomes[k].id \notin pairedIds
               /\ absDiff(expense.amount, incomes[k].amount) <= 1}
  IN  IF ok = {} THEN 0 ELSE CHOOSE k \in ok : \A j \in ok : j <= k

\* the first income of the day, in order, that is not yet paired and matches the
\* expense's amount (lines 58-73); 0 when there is none
firstMatch(expense, incomes, pairedIds) ==
  LET ok == {k \in DOMAIN incomes :
               /\ incomes[k].id \notin pairedIds
               /\ ~amountsDiffer(expense.amount, incomes[k].amount)}
  IN  IF ok = {} THEN 0 ELSE CHOOSE k \in ok : \A j \in ok : k <= j

\* the loop over one day's expenses (lines 55-74), from the k-th expense on
RECURSIVE pairDay(_, _, _, _, _, _)
pairDay(date, expenses, incomes, k, pairs, pairedIds) ==
  IF k > Len(expenses) THEN [pairs |-> pairs, pairedIds |-> pairedIds]
  ELSE LET expense == expenses[k]
           m == firstMatch(expense, incomes, pairedIds)
       IN  IF expense.id \in pairedIds \/ m = 0
           THEN pairDay(date, expenses, incomes, k + 1, pairs, pairedIds)
           ELSE pairDay(date, expenses, incomes, k + 1,
                        Append(pairs, [outgoing |-> expense, incoming |-> incomes[m],
                                       amount |-> expense.amount, date |-> date]),
                        pairedIds \cup {expense.id, incomes[m].id})

\* the loop over the days of byDate (lines 51-75), in the order the dates first occur
RECURSIVE pairDays(_, _, _, _, _)
pairDays(txs, dates, markedAsInternal, pairs, pairedIds) ==
  IF dates = <<>> THEN [pairs |-> pairs, pairedIds |-> pairedIds]
  ELSE LET date == Head(dates)
           dayTxs == SelectSeq(txs, LAMBDA tx : tx.date = date)
           expenses == SelectSeq(dayTxs, LAMBDA tx : tx.type = "expense"
                                                    /\ tx.id \in markedAsInternal)
           incomes == SelectSeq(dayTxs, LAMBDA tx : tx.type = "income"
                                                   /\ tx.id \in markedAsInternal)
           r == pairDay(date, expenses, incomes, 1, pairs, pairedIds)
       IN  pairDays(txs, Tail(dates), markedAsInternal, r.pairs, r.pairedIds)

\* step 4 with isExcluded set on every internal transaction
markTransactionExcludeAll(tx, markedAsInternal, pairs, pairedIds) ==
  IF tx.id \in markedAsInternal
  THEN [tx EXCEPT !.category = Transfer, !.isTransfer = TRUE, !.isExcluded = TRUE]
  ELSE tx

\* step 4 with isExcluded set on every transaction that is not internal
markTransactionExcludeOthers(tx, markedAsInternal, pairs, pairedIds) ==
  IF tx.id \in markedAsInternal
  THEN [tx EXCEPT !.category = Transfer, !.isTransfer = TRUE,
                  !.isExcluded = (tx.type = "income")]
  ELSE [tx EXCEPT !.isExcluded = TRUE]

\* step 4 (lines 78-100) for one transaction
markTransaction(tx, markedAsInternal, pairs, pairedIds) ==
  LET isInternal == tx.id \in markedAsInternal
      isPaired == tx.id \in pairedIds
      asIncoming == {k \in DOMAIN pairs : pairs[k].incoming.id = tx.id}
      asOutgoing == {k \in DOMAIN pairs : pairs[k].outgoing.id = tx.id}
      first(S) == CHOOSE k \in S : \A j \in S : k <= j
  IN  IF isInternal
      THEN [tx EXCEPT
              !.category = Transfer,
              !.isTransfer = TRUE,
              !.isExcluded = (tx.type = "income"),
              !.doubleBookingMatch =
                 IF isPaired
                 THEN IF asIncoming # {} THEN pairs[first(asIncoming)].outgoing.id
                      ELSE IF asOutgoing # {} THEN pairs[first(asOutgoing)].incoming.id
                      ELSE NoId
                 ELSE NoId]
      ELSE tx

\* step 2 (lines 30-36): the ids of the transactions isInternalTransfer accepts
internalIds(txs) ==
  LET userAccounts == {toLowerCase(txs[k].referenceAccount) :
                         k \in {j \in DOMAIN txs : txs[j].referenceAccount # <<>>}}
      userAccountNames == {toLowerCase(txs[k].referenceAccountName) :
                             k \in {j \in DOMAIN txs : txs[j].referenceAccountName # <<>>}}
  IN  {txs[k].id : k \in {j \in DOMAIN txs :
                            isInternalTransfer(txs[j], userAccounts, userAccountNames)}}

\* detectDoubleBookings(transactions): the annotated transactions, the pairs, and
\* the set markedAsInternal
detectDoubleBookings(txs) ==
  LET markedAsInternal == internalIds(txs)
      dates == dedupe([k \in DOMAIN txs |-> txs[k].date], <<>>)
      r == pairDays(txs, dates, markedAsInternal, <<>>, {})
  IN  [transactions |-> [k \in DOMAIN txs |->
                           markTransaction(txs[k], markedAsInternal, r.pairs, r.pairedIds)],
       pairs |-> r.pairs,
       markedAsInternal |-> markedAsInternal]

-----------------------------------------------------------------------------
(* Recurrence detector: web/src/lib/recurring.ts                           *)

\* AMOUNT_TOLERANCE = 0.05, as a percentage
AMOUNT_TOLERANCE_PERCENT == 5

MIN_OCCURRENCES == 2

DAY_TOLERANCE == 3

\* new Date("YYYY-MM-DD").getTime() in days since 1970-01-01
dayNumber(date) ==
  LET y == IF date[2] <= 2 THEN date[1] - 1 ELSE date[1]
      era == y \div 400
      yoe == y - era * 400
      mp == IF date[2] > 2 THEN date[2] - 3 ELSE date[2] + 9
      doy == (153 * mp + 2) \div 5 + date[3] - 1
      doe == yoe * 365 + yoe \div 4 - yoe \div 100 + doy
  IN  era * 146097 + doe - 719468

calculateDaysBetween(date1, date2) == absDiff(dayNumber(date1), dayNumber(date2))

sumOf(intervals) ==
  LET RECURSIVE go(_)
      go(k) == IF k = 0 THEN 0 ELSE intervals[k] + go(k - 1)
  IN  go(Len(intervals))

\* detectFrequency(intervals): avgInterval = sum / n is compared through sum and n
detectFrequency(intervals) ==
  LET n == Len(intervals)
      sum == sumOf(intervals)
      between(lo, hi) == sum >= lo * n /\ sum <= hi * n
  IN  IF n = 0 THEN "none"
      ELSE IF between(5, 9) THEN "weekly"
      ELSE IF between(25, 35) THEN "monthly"
      ELSE IF between(80, 100) THEN "quarterly"
      ELSE IF between(350, 380) THEN "yearly"
      ELSE "none"

\* tx.merchant || tx.recipient || tx.description.slice(0, 30)
merchantKey(tx) ==
  IF tx.merchant # <<>> THEN tx.merchant
  ELSE IF tx.recipient # <<>> THEN tx.recipient
  ELSE SubSeq(tx.description, 1, IF Len(tx.description) < 30 THEN Len(tx.description) ELSE 30)

\* Math.round(tx.amount) for an amount >= 0 in cents
roundAmount(cents) == (cents + 50) \div 100

\* the key `${merchant.toLowerCase()}_${roundedAmount}` as a pair
groupKey(tx) == <<toLowerCase(merchantKey(tx)), roundAmount(tx.amount)>>

\* groupByMerchantAndAmount(transactions): the groups in the order their keys first
\* occur, each the sequence of its transactions in input order
groupByMerchantAndAmount(txs) ==
  LET eligible == SelectSeq(txs, LAMBDA tx : ~(tx.type = "income" \/ tx.category = Transfer))
      keys == dedupe([k \in DOMAIN eligible |-> groupKey(eligible[k])], <<>>)
  IN  [g \in DOMAIN keys |-> SelectSeq(eligible, LAMBDA tx : groupKey(tx) = keys[g])]

\* isAmountSimilar with a tolerance of 10%
isAmountSimilarLoose(amount1, amount2) ==
  LET diff == absDiff(amount1, amount2)
      maxAmount == IF amount1 >= amount2 THEN amount1 ELSE amount2
  IN  maxAmount # 0 /\ diff * 100 <= 10 * maxAmount

\* diff / maxAmount <= AMOUNT_TOLERANCE; 0 / 0 is NaN, which compares false
isAmountSimilar(amount1, amount2) ==
  LET diff == absDiff(amount1, amount2)
      maxAmount == IF amount1 >= amount2 THEN amount1 ELSE amount2
  IN  maxAmount # 0 /\ diff * 100 <= AMOUNT_TOLERANCE_PERCENT * maxAmount

\* txGroup.sort by date: a stable sort
RECURSIVE sortByDate(_)
sortByDate(txGroup) ==
  IF txGroup = <<>> THEN <<>>
  ELSE LET days == {dayNumber(txGroup[k].date) : k \in DOMAIN txGroup}
           least == CHOOSE d \in days : \A e \in days : d <= e
       IN  SelectSeq(txGroup, LAMBDA tx : dayNumber(tx.date) = least)
             \o sortByDate(SelectSeq(txGroup, LAMBDA tx : dayNumber(tx.date) # least))

\* lines 94-97: the days between consecutive transactions of the sorted group
intervalsOf(sorted) ==
  [i \in 1..(Len(sorted) - 1) |-> calculateDaysBetween(sorted[i].date, sorted[i + 1].date)]

\* the test of lines 104-107 left out
isConsistentAlways(intervals) == TRUE

\* lines 104-107: |interval - avgInterval| <= DAY_TOLERANCE * 2 for every interval,
\* with avgInterval = sum / n compared through sum and n
isConsistent(intervals) ==
  \A i \in DOMAIN intervals :
    absDiff(intervals[i] * Len(intervals), sumOf(intervals))
      <= DAY_TOLERANCE * 2 * Len(intervals)

\* lines 100-109 for the intervals of a group
intervalsFrequency(intervals) ==
  IF detectFrequency(intervals) = "none" THEN "none"
  ELSE IF ~isConsistent(intervals) /\ Len(intervals) > 1 THEN "none"
  ELSE detectFrequency(intervals)

\* lines 89-109 for a sorted group
sortedFrequency(sorted) ==
  IF ~\A k \in DOMAIN sorted : isAmountSimilar(sorted[k].amount, sorted[1].amount)
  THEN "none"
  ELSE intervalsFrequency(intervalsOf(sorted))

\* the frequency of one group (lines 80-109), "none" when the group is passed over
groupFrequency(txGroup) ==
  IF Len(txGroup) < MIN_OCCURRENCES THEN "none" ELSE sortedFrequency(sortByDate(txGroup))

\* recurringFrequencies.get(id): the frequency of the last pattern that lists the id,
\* "none" when no pattern lists it; frequencies[g] is the frequency of groups[g]
frequencyOf(id, groups, frequencies) ==
  LET hits == {g \in DOMAIN groups :
                 /\ frequencies[g] # "none"
                 /\ \E k \in DOMAIN groups[g] : groups[g][k].id = id}
  IN  IF hits = {} THEN "none"
      ELSE frequencies[CHOOSE g \in hits : \A h \in hits : h <= g]

\* lines 131-140: the transaction marked with the frequency of its pattern
markRecurring(tx, frequency) ==
  IF frequency # "none"
  THEN [tx EXCEPT !.isRecurring = TRUE, !.recurringFrequency = frequency]
  ELSE tx

\* lines 80-118 on the groups: the frequency of every group
groupFrequencies(groups) == [g \in DOMAIN groups |-> groupFrequency(groups[g])]

detectRecurringIn(txs, groups, frequencies) ==
  [k \in DOMAIN txs |-> markRecurring(txs[k], frequencyOf(txs[k].id, groups, frequencies))]

detectRecurringOf(txs, groups) == detectRecurringIn(txs, groups, groupFrequencies(groups))

detectRecurring(txs) == detectRecurringOf(txs, groupByMerchantAndAmount(txs))

\* monthlyEquivalent(tx), lines 151-159, in units of 1/300 of a cent, the unit in
\* which amount * 4.33, amount / 3 and amount / 12 are all whole numbers
monthlyEquivalent(tx) ==
  CASE tx.recurringFrequency = "weekly" -> tx.amount * 1299
    [] tx.recurringFrequency = "monthly" -> tx.amount * 300
    [] tx.recurringFrequency = "quarterly" -> tx.amount * 100
    [] tx.recurringFrequency = "yearly" -> tx.amount * 25
    [] OTHER -> tx.amount * 300

\* the key of line 168, `${merchant}_${Math.round(tx.amount)}`, as a pair
summaryKey(tx) == <<merchantKey(tx), roundAmount(tx.amount)>>

\* line 148
recurringTxs(txs) == SelectSeq(txs, LAMBDA tx : tx.isRecurring /\ tx.type = "expense")

\* lines 167-170: the transactions the loop does not skip, the first of every key
countedTxs(recurring) ==
  LET firstOfKey(k) == \A j \in 1..(k - 1) : summaryKey(recurring[j]) # summaryKey(recurring[k])
      RECURSIVE go(_)
      go(k) == IF k > Len(recurring) THEN <<>>
               ELSE IF firstOfKey(k) THEN <<recurring[k]>> \o go(k + 1)
               ELSE go(k + 1)
  IN  go(1)

RECURSIVE totalMonthly(_)
totalMonthly(counted) ==
  IF counted = <<>> THEN 0 ELSE monthlyEquivalent(Head(counted)) + totalMonthly(Tail(counted))

\* tx.category || 'Other'
summaryCategory(tx) == IF tx.category = <<>> THEN Other ELSE tx.category

\* lines 175-176 and 181-182: the categories in the order they were first set, each
\* with the sum of the monthly amounts counted for it
byCategory(counted) ==
  LET categories == dedupe([k \in DOMAIN counted |-> summaryCategory(counted[k])], <<>>)
  IN  [c \in DOMAIN categories |->
         [category |-> categories[c],
          amount |-> totalMonthly(SelectSeq(counted,
                        LAMBDA tx : summaryCategory(tx) = categories[c]))]]

\* .sort((a, b) => b.amount - a.amount): a stable sort, largest amount first
RECURSIVE sortByAmount(_)
sortByAmount(entries) ==
  IF entries = <<>> THEN <<>>
  ELSE LET amounts == {entries[k].amount : k \in DOMAIN entries}
           most == CHOOSE a \in amounts : \A b \in amounts : a >= b
       IN  SelectSeq(entries, LAMBDA e : e.amount = most)
             \o sortByAmount(SelectSeq(entries, LAMBDA e : e.amount # most))

summaryOf(counted) ==
  [stage |-> "computed",
   totalMonthlyRecurring |-> totalMonthly(counted),
   recurringByCategory |-> sortByAmount(byCategory(counted))]

\* getRecurringSummary(transactions), lines 144-185
getRecurringSummary(txs) == summaryOf(countedTxs(recurringTxs(txs)))

NoSummary == [stage |-> "idle", totalMonthlyRecurring |-> 0, recurringByCategory |-> <<>>]
(***************************************************************************)
(* Amount parsing - web/src/lib/parser.ts                                  *)
(*                                                                         *)
(* A JavaScript number is a record [nan, neg, units, scale] that stands    *)
(* for (-1)^neg * units / 10^scale with no trailing zero in the fraction.  *)
(* The cells have few digits, so two different decimal values are two      *)
(* different doubles; -0 is falsy like 0 and is written Zero.              *)
(***************************************************************************)

Zero == [nan |-> FALSE, neg |-> FALSE, units |-> 0, scale |-> 0]

NaN == [nan |-> TRUE, neg |-> FALSE, units |-> 0, scale |-> 0]

\* value of one decimal digit character
digitValue(c) == CHOOSE d \in 0..9 : <<"0","1","2","3","4","5","6","7","8","9">>[d + 1] = c

\* value of a sequence of decimal digits
RECURSIVE digitsValue(_)
digitsValue(ds) ==
  IF ds = <<>> THEN 0
  ELSE digitsValue(SubSeq(ds, 1, Len(ds) - 1)) * 10 + digitValue(ds[Len(ds)])

\* a fraction without its trailing zeros
RECURSIVE significant(_)
significant(ds) ==
  IF ds # <<>> /\ ds[Len(ds)] = "0" THEN significant(SubSeq(ds, 1, Len(ds) - 1)) ELSE ds

\* the number written as sign, integer digits and fraction digits
decimalNumber(neg, int, frac) ==
  IF digitsValue(int \o frac) = 0 THEN Zero
  ELSE [nan |-> FALSE, neg |-> neg, units |-> digitsValue(int \o significant(frac)),
        scale |-> Len(significant(frac))]

\* length of the longest prefix of s made of decimal digits
RECURSIVE digitPrefix(_)
digitPrefix(s) ==
  IF s # <<>> /\ Head(s) \in DigitChars THEN 1 + digitPrefix(Tail(s)) ELSE 0

\* the unsigned part of parseFloat: digits, then optionally a point and digits
unsignedFloat(neg, s, n) ==
  IF n < Len(s) /\ s[n + 1] = "."
  THEN IF n + digitPrefix(SubSeq(s, n + 2, Len(s))) = 0 THEN NaN
       ELSE decimalNumber(neg, SubSeq(s, 1, n),
                          SubSeq(s, n + 2, n + 1 + digitPrefix(SubSeq(s, n + 2, Len(s)))))
  ELSE IF n = 0 THEN NaN
  ELSE decimalNumber(neg, SubSeq(s, 1, n), <<>>)

\* parseFloat on a string of digits, '.' and '-': the longest prefix that is a
\* decimal literal, NaN when there is none
parseFloat(s) ==
  IF s # <<>> /\ Head(s) = "-"
  THEN unsignedFloat(TRUE, Tail(s), digitPrefix(Tail(s)))
  ELSE unsignedFloat(FALSE, s, digitPrefix(s))

\* x || 0
orZero(x) == IF x.nan THEN Zero ELSE x

\* s.lastIndexOf(c): 0-based, -1 when c does not occur
lastIndexOf(s, c) ==
  IF \E i \in DOMAIN s : s[i] = c
  THEN (CHOOSE i \in DOMAIN s : s[i] = c /\ \A j \in DOMAIN s : s[j] = c => j <= i) - 1
  ELSE -1

\* s.replace(c, d) with a string pattern: only the first occurrence
replaceFirst(s, c, d) ==
  IF \E i \in DOMAIN s : s[i] = c
  THEN [s EXCEPT ![CHOOSE i \in DOMAIN s : s[i] = c /\ \A j \in DOMAIN s : s[j] = c => i <= j] = d]
  ELSE s

\* s.replace(/[...]/g, '') for a character class
withoutChars(s, class) == SelectSeq(s, LAMBDA c : c \notin class)

\* s.replace(/[^...]/g, '') for a negated character class
onlyChars(s, class) == SelectSeq(s, LAMBDA c : c \in class)

\* the separators of a cell always read in the English format
withDecimalPointEnglish(cleaned, lastDot, lastComma) == withoutChars(cleaned, {","})

\* parseNumber lines 197-214: the separators of the detected format
withDecimalPoint(cleaned, lastDot, lastComma) ==
  IF lastDot > lastComma THEN withoutChars(cleaned, {","})
  ELSE IF lastComma > lastDot THEN replaceFirst(withoutChars(cleaned, {"."}), ",", ".")
  ELSE IF lastComma # -1
  THEN IF /\ Len(cleaned) - (lastComma + 1) = 2
          /\ \A i \in (lastComma + 2)..Len(cleaned) : cleaned[i] \in DigitChars
       THEN replaceFirst(cleaned, ",", ".")
       ELSE withoutChars(cleaned, {","})
  ELSE cleaned

\* parseNumber lines 189-220, on the cell without quotes and whitespace
parseCleaned(cleaned, lastDot, lastComma) ==
  IF lastDot = -1 /\ lastComma = -1
  THEN orZero(parseFloat(onlyChars(cleaned, DigitChars \cup {"-"})))
  ELSE orZero(parseFloat(onlyChars(withDecimalPoint(cleaned, lastDot, lastComma),
                                   DigitChars \cup {".", "-"})))

\* parseNumber (lines 182-221)
parseNumber(value) ==
  IF value = <<>> THEN Zero
  ELSE parseCleaned(withoutChars(value, {"\"", "'", " "}),
                    lastIndexOf(withoutChars(value, {"\"", "'", " "}), "."),
                    lastIndexOf(withoutChars(value, {"\"", "'", " "}), ","))

(***************************************************************************)
(* Rows and files - web/src/lib/parser.ts                                  *)
(*                                                                         *)
(* A row is the record of its cells under the normalized column names; a   *)
(* column the file does not have is absent from the file's headers and its *)
(* cell is undefined (the empty sequence).                                 *)
(***************************************************************************)

\* /^\d+$/ on a non-empty string
allDigits(s) == s # <<>> /\ \A i \in DOMAIN s : s[i] \in DigitChars

\* the positions <<i, j>> of the two separators in a match of
\* /^(\d{1,2})SEP(\d{1,2})SEP(\d{4})$/
numericDateMatches(value, sep) ==
  {m \in (DOMAIN value) \X (DOMAIN value) :
     /\ m[1] < m[2]
     /\ value[m[1]] = sep
     /\ value[m[2]] = sep
     /\ m[1] - 1 \in 1..2
     /\ allDigits(SubSeq(value, 1, m[1] - 1))
     /\ m[2] - m[1] - 1 \in 1..2
     /\ allDigits(SubSeq(value, m[1] + 1, m[2] - 1))
     /\ Len(value) - m[2] = 4
     /\ allDigits(SubSeq(value, m[2] + 1, Len(value)))}

\* s.padStart(2, '0')
padStart2(s) == IF Len(s) < 2 THEN <<"0">> \o s ELSE s

\* `${year}-${month.padStart(2, '0')}-${day.padStart(2, '0')}`
isoOf(year, month, day) == year \o <<"-">> \o padStart2(month) \o <<"-">> \o padStart2(day)

\* parseDate lines 229-230: day.month.year
germanDate(value, m) ==
  isoOf(SubSeq(value, m[2] + 1, Len(value)), SubSeq(value, m[1] + 1, m[2] - 1),
        SubSeq(value, 1, m[1] - 1))

\* parseDate lines 242-243: month/day/year
usDate(value, m) ==
  isoOf(SubSeq(value, m[2] + 1, Len(value)), SubSeq(value, 1, m[1] - 1),
        SubSeq(value, m[1] + 1, m[2] - 1))

\* /^(\d{4})-(\d{2})-(\d{2})/
isoMatch(value) ==
  /\ Len(value) >= 10
  /\ allDigits(SubSeq(value, 1, 4))
  /\ value[5] = "-"
  /\ allDigits(SubSeq(value, 6, 7))
  /\ value[8] = "-"
  /\ allDigits(SubSeq(value, 9, 10))

\* days of a month of the proleptic Gregorian calendar
daysInMonth(y, m) ==
  IF m = 2 THEN (IF y % 4 = 0 /\ (y % 100 # 0 \/ y % 400 = 0) THEN 29 ELSE 28)
  ELSE IF m \in {4, 6, 9, 11} THEN 30 ELSE 31

\* new Date(value) has a time value: value is a date-only ISO string of a day
\* that exists.  Strings that only an engine's own date formats accept are
\* not among the cells.
isValidDate(value) ==
  /\ Len(value) = 10
  /\ isoMatch(value)
  /\ digitsValue(SubSeq(value, 6, 7)) \in 1..12
  /\ digitsValue(SubSeq(value, 9, 10)) \in
       1..daysInMonth(digitsValue(SubSeq(value, 1, 4)), digitsValue(SubSeq(value, 6, 7)))

\* new Date(value).getTime() of a valid date, in days
getTime(value) ==
  dayNumber(<<digitsValue(SubSeq(value, 1, 4)), digitsValue(SubSeq(value, 6, 7)),
              digitsValue(SubSeq(value, 9, 10))>>)

\* parseDate (lines 223-253)
parseDate(value) ==
  IF value = <<>> THEN <<>>
  ELSE IF numericDateMatches(value, ".") # {}
  THEN germanDate(value, CHOOSE m \in numericDateMatches(value, ".") : TRUE)
  ELSE IF isoMatch(value) THEN SubSeq(value, 1, 10)
  ELSE IF numericDateMatches(value, "/") # {}
  THEN usDate(value, CHOOSE m \in numericDateMatches(value, "/") : TRUE)
  ELSE IF isValidDate(value) THEN value
  ELSE value

\* Object.values(row).every(v => !v || v.trim() === '')
isEmptyRow(row) == \A column \in DOMAIN row : trim(row[column]) = <<>>

\* the required fields are there: mapped.date && mapped.amount !== undefined
\* (line 473); mapped.amount is set whenever the file has an amount column
hasRequiredFields(row, headers) ==
  /\ "date" \in headers
  /\ parseDate(row.date) # <<>>
  /\ "amount" \in headers

\* the RawTransaction pushed for a row (lines 474-487)
mappedRow(row) ==
  [date        |-> parseDate(row.date),
   description |-> row.description,
   amount      |-> parseNumber(row.amount),
   currency    |-> <<"E","U","R">>,
   rawData     |-> row]

\* the loop of processRows (lines 442-489)
RECURSIVE mapRows(_, _)
mapRows(rows, headers) ==
  IF rows = <<>> THEN <<>>
  ELSE IF isEmptyRow(Head(rows)) \/ ~hasRequiredFields(Head(rows), headers)
  THEN mapRows(Tail(rows), headers)
  ELSE <<mappedRow(Head(rows))>> \o mapRows(Tail(rows), headers)

\* the comparator new Date(b.date).getTime() - new Date(a.date).getTime() is
\* a consistent comparator: no date gives NaN, or NaN (taken as 0) makes
\* every two elements equal
consistentComparator(txs) ==
  \/ \A i \in DOMAIN txs : isValidDate(txs[i].date)
  \/ \A i, j \in DOMAIN txs :
       (isValidDate(txs[i].date) /\ isValidDate(txs[j].date))
         => getTime(txs[i].date) = getTime(txs[j].date)

\* the stable sort by date, the most recent first, of transactions with valid
\* dates
RECURSIVE sortDescending(_)
sortDescending(txs) ==
  IF txs = <<>> THEN <<>>
  ELSE SelectSeq(txs,
                 LAMBDA tx : \A k \in DOMAIN txs :
                               getTime(txs[k].date) <= getTime(tx.date))
       \o sortDescending(SelectSeq(txs,
                 LAMBDA tx : \E k \in DOMAIN txs :
                               getTime(txs[k].date) > getTime(tx.date)))

\* every order of the elements of a sequence
orderings(s) ==
  {[i \in DOMAIN s |-> s[p[i]]] :
     p \in {q \in [DOMAIN s -> DOMAIN s] : \A i, j \in DOMAIN s : q[i] = q[j] => i = j}}

\* what transactions.sort(...) can leave (lines 490-493 and 413-416): the
\* stable sort under a consistent comparator, an order that the engine
\* chooses under an inconsistent one
sortOutcomes(txs) ==
  IF \A i \in DOMAIN txs : isValidDate(txs[i].date)
  THEN {sortDescending(txs)}
  ELSE IF consistentComparator(txs) THEN {txs}
  ELSE orderings(txs)

\* processRows (lines 433-496): the arrays it can return
processRows(rows, headers) == sortOutcomes(mapRows(rows, headers))

\* the date of an OFX entry (lines 388-391)
ofxDate(dateStr) ==
  IF Len(dateStr) >= 8
  THEN SubSeq(dateStr, 1, 4) \o <<"-">> \o SubSeq(dateStr, 5, 6) \o <<"-">> \o SubSeq(dateStr, 7, 8)
  ELSE <<>>

\* the loop of parseOFX (lines 372-410); a row holds DTPOSTED, TRNAMT and MEMO
RECURSIVE ofxRows(_)
ofxRows(rows) ==
  IF rows = <<>> THEN <<>>
  ELSE IF ofxDate(trim(Head(rows).date)) = <<>>
          \/ orZero(parseFloat(trim(Head(rows).amount))) = Zero
  THEN ofxRows(Tail(rows))
  ELSE <<[date        |-> ofxDate(trim(Head(rows).date)),
          description |-> trim(Head(rows).description),
          amount      |-> orZero(parseFloat(trim(Head(rows).amount))),
          currency    |-> <<"E","U","R">>,
          rawData     |-> Head(rows)]>> \o ofxRows(Tail(rows))

SUPPORTED_FILE_TYPES ==
  [csv   |-> {".csv", "text/csv", "application/csv"},
   excel |-> {".xlsx", ".xls",
              "application/vnd.openxmlformats-officedocument.spreadsheetml.sheet",
              "application/vnd.ms-excel"},
   ofx   |-> {".ofx", ".qfx", "application/x-ofx"}]

\* getFileType; file.ext is '.' + file.name.split('.').pop().toLowerCase()
\* and file.type the lower-cased MIME type
getFileType(file) ==
  IF file.ext \in SUPPORTED_FILE_TYPES.csv \/ file.type \in SUPPORTED_FILE_TYPES.csv THEN "csv"
  ELSE IF file.ext \in SUPPORTED_FILE_TYPES.excel \/ file.type \in SUPPORTED_FILE_TYPES.excel
  THEN "excel"
  ELSE IF file.ext \in SUPPORTED_FILE_TYPES.ofx \/ file.type \in SUPPORTED_FILE_TYPES.ofx THEN "ofx"
  ELSE "unknown"

\* a promise of parseFile that is resolved with transactions
resolved(txs) == [ok |-> TRUE, transactions |-> txs, message |-> ""]

\* a promise of parseFile that is rejected with an Error
rejected(message) == [ok |-> FALSE, transactions |-> <<>>, message |-> message]

\* parseFile (lines 262-275) with parseCSV, parseExcel and parseOFX: the
\* promises it can return
parseFile(file) ==
  IF getFileType(file) = "unknown" THEN {rejected("Unsupported file type")}
  ELSE IF ~file.readable
  THEN {rejected(CASE getFileType(file) = "csv" -> "Failed to parse CSV"
                   [] getFileType(file) = "excel" -> "Failed to read Excel file"
                   [] OTHER -> "Failed to read OFX file")}
  ELSE IF getFileType(file) = "ofx"
  THEN {resolved(t) : t \in sortOutcomes(ofxRows(file.rows))}
  ELSE {resolved(t) : t \in processRows(file.rows, file.headers)}

\* no file has been chosen
NoFile == [ext |-> "", type |-> "", readable |-> TRUE, headers |-> {}, rows |-> <<>>]

\* the parser has been handed nothing
NoParse ==
  [stage |-> "idle", cell |-> <<>>, number |-> Zero, file |-> NoFile, result |-> resolved(<<>>)]

-----------------------------------------------------------------------------
(* App: web/src/App.tsx                                                    *)

\* lines 37-39 with every amount left as the raw signed amount
processStageSigned(st, raw, anonymize, t) ==
  IF anonymize
  THEN [anonymizeTransactions(st, raw, t) EXCEPT
          !.transactions = [k \in DOMAIN @ |-> [@[k] EXCEPT !.amount = raw[k].amount]]]
  ELSE [store |-> st, threw |-> FALSE, mappings |-> <<>>,
        transactions |-> [k \in DOMAIN raw |->
          [processWithoutAnonymization(raw, t)[k] EXCEPT !.amount = raw[k].amount]]]

\* lines 37-39 of processTransactions: the processed transactions, with the store
\* after the call and whether the call threw
processStage(st, raw, anonymize, t) ==
  IF anonymize THEN anonymizeTransactions(st, raw, t)
  ELSE [store |-> st, threw |-> FALSE, mappings |-> <<>>,
        transactions |-> processWithoutAnonymization(raw, t)]

\* line 48: the record of the finished call
recurringStage(anonymize, a, categorized, d) ==
  [stage |-> "done", store |-> a.store, anonymize |-> anonymize,
   mappings |-> a.mappings, processed |-> a.transactions,
   categorized |-> categorized, withDoubleBookings |-> d.transactions,
   pairs |-> d.pairs, markedAsInternal |-> d.markedAsInternal,
   result |-> detectRecurring(d.transactions)]

\* line 45
detectStage(anonymize, a, categorized) ==
  recurringStage(anonymize, a, categorized, detectDoubleBookings(categorized))

\* line 42; an exception in the first stage ends the call
categorizeStage(learned, anonymize, a) ==
  IF a.threw
  THEN [stage |-> "threw", store |-> a.store, anonymize |-> anonymize,
        mappings |-> <<>>, processed |-> <<>>, categorized |-> <<>>,
        withDoubleBookings |-> <<>>, pairs |-> <<>>, markedAsInternal |-> {},
        result |-> <<>>]
  ELSE detectStage(anonymize, a, categorizeWithRules(learned, a.transactions))

\* processTransactions(raw, anonymize), lines 35-49, run on store st with the
\* learned-mappings cache `learned` at time t: every stage's result, the store after
\* the call, and whether the call threw
processTransactions(st, learned, raw, anonymize, t) ==
  categorizeStage(learned, anonymize, processStage(st, raw, anonymize, t))

\* the record of a run: everything but the store
runOf(p) == [x \in DOMAIN p \ {"store"} |-> p[x]]

NoRun ==
  [stage |-> "idle", anonymize |-> FALSE, mappings |-> <<>>, processed |-> <<>>,
   categorized |-> <<>>, withDoubleBookings |-> <<>>, pairs |-> <<>>,
   markedAsInternal |-> {}, result |-> <<>>]

\* ---- the rows the inputs are drawn from (RawTransaction, types.ts lines 44-57) ----

\* -50.00 EUR "Transfer to Wise" 2024-05-01, reference account "N26"
RowTransferToWise ==
  [date |-> <<2024, 5, 1>>,
   description |-> <<"T","r","a","n","s","f","e","r"," ","t","o"," ","W","i","s","e">>,
   amount |-> -5000,
   currency |-> <<"E","U","R">>,
   category |-> <<>>,
   subcategory |-> <<>>,
   recipient |-> <<>>,
   recipientIban |-> <<>>,
   referenceAccount |-> <<"N","2","6">>,
   referenceAccountName |-> <<>>,
   isTransfer |-> FALSE]

\* +50.00 EUR "From N26" 2024-05-01, reference account "Wise"
RowFromN26 ==
  [date |-> <<2024, 5, 1>>,
   description |-> <<"F","r","o","m"," ","N","2","6">>,
   amount |-> 5000,
   currency |-> <<"E","U","R">>,
   category |-> <<>>,
   subcategory |-> <<>>,
   recipient |-> <<>>,
   recipientIban |-> <<>>,
   referenceAccount |-> <<"W","i","s","e">>,
   referenceAccountName |-> <<>>,
   isTransfer |-> FALSE]

\* +50.01 EUR "Sent from N26" 2024-05-01 from John Doe, DE12500105170000001234
RowSentFromN26 ==
  [date |-> <<2024, 5, 1>>,
   description |-> <<"S","e","n","t"," ","f","r","o","m"," ","N","2","6">>,
   amount |-> 5001,
   currency |-> <<"E","U","R">>,
   category |-> <<>>,
   subcategory |-> <<>>,
   recipient |-> <<"J","o","h","n"," ","D","o","e">>,
   recipientIban |-> <<"D","E","1","2","5","0","0","1","0","5","1","7","0","0","0","0","0","0","1","2","3","4">>,
   referenceAccount |-> <<>>,
   referenceAccountName |-> <<>>,
   isTransfer |-> FALSE]

\* -12.99 EUR "Order John Doe" 2024-05-02 to AMAZON PAYMENTS EUROPE, DE98370400440000001234
RowAmazon ==
  [date |-> <<2024, 5, 2>>,
   description |-> <<"O","r","d","e","r"," ","J","o","h","n"," ","D","o","e">>,
   amount |-> -1299,
   currency |-> <<"E","U","R">>,
   category |-> <<>>,
   subcategory |-> <<>>,
   recipient |-> <<"A","M","A","Z","O","N"," ","P","A","Y","M","E","N","T","S"," ","E","U","R","O","P","E">>,
   recipientIban |-> <<"D","E","9","8","3","7","0","4","0","0","4","4","0","0","0","0","0","0","1","2","3","4">>,
   referenceAccount |-> <<>>,
   referenceAccountName |-> <<>>,
   isTransfer |-> FALSE]

\* -50.00 EUR "Umbuchung" 2024-05-01 to Jane Roe, flagged as a transfer by the source
RowUmbuchung ==
  [date |-> <<2024, 5, 1>>,
   description |-> <<"U","m","b","u","c","h","u","n","g">>,
   amount |-> -5000,
   currency |-> <<"E","U","R">>,
   category |-> <<>>,
   subcategory |-> <<>>,
   recipient |-> <<"J","a","n","e"," ","R","o","e">>,
   recipientIban |-> <<>>,
   referenceAccount |-> <<>>,
   referenceAccountName |-> <<>>,
   isTransfer |-> TRUE]

\* +20.00 EUR "Rent share" 2024-05-02 from Jane Roe
RowRentShare ==
  [date |-> <<2024, 5, 2>>,
   description |-> <<"R","e","n","t"," ","s","h","a","r","e">>,
   amount |-> 2000,
   currency |-> <<"E","U","R">>,
   category |-> <<>>,
   subcategory |-> <<>>,
   recipient |-> <<"J","a","n","e"," ","R","o","e">>,
   recipientIban |-> <<>>,
   referenceAccount |-> <<>>,
   referenceAccountName |-> <<>>,
   isTransfer |-> FALSE]

\* +10.00 EUR "Moved from savings" 2024-05-01 from a counterparty named Person_AAB
RowPseudonym ==
  [date |-> <<2024, 5, 1>>,
   description |-> <<"M","o","v","e","d"," ","f","r","o","m"," ","s","a","v","i","n","g","s">>,
   amount |-> 1000,
   currency |-> <<"E","U","R">>,
   category |-> <<>>,
   subcategory |-> <<>>,
   recipient |-> <<"P","e","r","s","o","n","_","A","A","B">>,
   recipientIban |-> <<>>,
   referenceAccount |-> <<>>,
   referenceAccountName |-> <<>>,
   isTransfer |-> FALSE]

\* -5.00 EUR "Cash" 2024-05-03 with a recipient IBAN of four characters
RowShortIban ==
  [date |-> <<2024, 5, 3>>,
   description |-> <<"C","a","s","h">>,
   amount |-> -500,
   currency |-> <<"E","U","R">>,
   category |-> <<>>,
   subcategory |-> <<>>,
   recipient |-> <<"M","a","x"," ","M","u","s","t","e","r">>,
   recipientIban |-> <<"D","E","1","2">>,
   referenceAccount |-> <<>>,
   referenceAccountName |-> <<>>,
   isTransfer |-> FALSE]

Rows ==
  {RowTransferToWise, RowFromN26, RowSentFromN26, RowAmazon, RowUmbuchung, RowRentShare,
   RowPseudonym}

\* the files of the App specification, as parseFile returns them: the most recent
\* row first (src/unnamed/part_010 lines 490-493)
Files ==
  {<<>>,
   <<RowTransferToWise, RowFromN26>>,
   <<RowAmazon, RowSentFromN26>>,
   <<RowShortIban, RowRentShare>>}

\* what getLearnedMappings() may return
LearnedTables ==
  {<<>>,
   <<[merchant |-> <<"J","a","n","e"," ","R","o","e">>, category |-> Transfer]>>}

MaxBatch == 3

MaxImports == 2

MaxNow == 1

\* useEffect of lines 25-33: the fetched mappings are installed when there are any
LoadLearnedMappings ==
  /\ learnedMappings = <<>>
  /\ \E mappings \in LearnedTables :
       /\ Len(mappings) > 0
       /\ learnedMappings' = setLearnedMappings(mappings)
  /\ UNCHANGED <<rawTransactionsRef, transactions, anonymizationEnabled, error, store,
                 now, run, fileNo, storeFile, parse, summary>>

\* handleFileUpload (lines 51-100) for a file that parseFile and the date filter turn
\* into the rows `raw`.  The upload area is rendered only while there are no
\* transactions (lines 197-203).
HandleFileUpload ==
  /\ transactions = <<>>
  /\ fileNo < MaxImports
  /\ \E raw \in Files :
       \E p \in {processTransactions(store, learnedMappings, raw, anonymizationEnabled, now)} :
           /\ rawTransactionsRef' = raw
           /\ store' = p.store
           /\ run' = runOf(p)
           /\ transactions' = IF p.stage = "threw" THEN transactions ELSE p.result
           /\ error' = (p.stage = "threw")
           /\ fileNo' = fileNo + 1
           /\ storeFile' = IF anonymizationEnabled THEN fileNo + 1 ELSE storeFile
  /\ UNCHANGED <<anonymizationEnabled, learnedMappings, now, parse, summary>>

\* handleFileUpload when parseFile rejects: the catch block sets the error
HandleFileUploadFailed ==
  /\ transactions = <<>>
  /\ ~error
  /\ error' = TRUE
  /\ UNCHANGED <<rawTransactionsRef, transactions, anonymizationEnabled, store,
                 learnedMappings, now, run, fileNo, storeFile, parse, summary>>

\* handleToggleAnonymization (lines 102-111).  The button is rendered only while there
\* are transactions (line 160).  An exception leaves `transactions` as it was, after
\* setAnonymizationEnabled has been called.
HandleToggleAnonymization ==
  /\ transactions # <<>>
  /\ \E newValue \in {~anonymizationEnabled} :
       /\ anonymizationEnabled' = newValue
       /\ IF Len(rawTransactionsRef) > 0
          THEN \E p \in {processTransactions(store, learnedMappings, rawTransactionsRef,
                                              newValue, now)} :
                 /\ store' = p.store
                 /\ run' = runOf(p)
                 /\ transactions' = IF p.stage = "threw" THEN transactions ELSE p.result
                 /\ storeFile' = IF newValue THEN fileNo ELSE storeFile
          ELSE UNCHANGED <<store, run, transactions, storeFile>>
  /\ UNCHANGED <<rawTransactionsRef, error, learnedMappings, now, fileNo, parse, summary>>

\* handleClearData (lines 113-117)
HandleClearData ==
  /\ transactions # <<>>
  /\ transactions' = <<>>
  /\ error' = FALSE
  /\ UNCHANGED <<rawTransactionsRef, anonymizationEnabled, store, learnedMappings, now,
                 run, fileNo, storeFile, parse, summary>>

\* { ...t, ...updates, categorySource: 'manual' } of line 124; `updates` is a record
\* with some of the fields of a transaction
updatedTx(t, updates) ==
  [f \in DOMAIN t |->
     IF f = "categorySource" THEN "manual"
     ELSE IF f \in DOMAIN updates THEN updates[f]
     ELSE t[f]]

\* the positions in AVAILABLE_CATEGORIES of the categories a user picks
OverrideCategories == {1}

\* the updates the components pass for the transaction t: a category picked from
\* AVAILABLE_CATEGORIES (TransactionList) or the exclusion flag inverted (Dashboard)
Updates(t) ==
  {[category |-> AVAILABLE_CATEGORIES[c]] : c \in OverrideCategories}
    \cup {[isExcluded |-> ~t.isExcluded]}

\* handleUpdateTransaction (lines 119-144).  saveLearnedMapping of line 130 posts the
\* mapping to the API; the learned-mappings cache in memory is not changed by it.
HandleUpdateTransaction ==
  /\ transactions # <<>>
  /\ \E k \in DOMAIN transactions :
       \E updates \in Updates(transactions[k]) :
         transactions' = [j \in DOMAIN transactions |->
                            IF transactions[j].id # transactions[k].id THEN transactions[j]
                            ELSE updatedTx(transactions[j], updates)]
  /\ UNCHANGED <<rawTransactionsRef, anonymizationEnabled, error, store, learnedMappings,
                 now, run, fileNo, storeFile, parse, summary>>

\* time passes: Date.now() grows
Tick ==
  /\ now < MaxNow
  /\ now' = now + 1
  /\ UNCHANGED <<rawTransactionsRef, transactions, anonymizationEnabled, error, store,
                 learnedMappings, run, fileNo, storeFile, parse, summary>>

Init ==
  /\ rawTransactionsRef = <<>>
  /\ transactions = <<>>
  /\ anonymizationEnabled = FALSE
  /\ error = FALSE
  /\ store = EmptyStore
  /\ learnedMappings = <<>>
  /\ now = 0
  /\ run = NoRun
  /\ fileNo = 0
  /\ storeFile = 0
  /\ summary = NoSummary
  /\ parse = NoParse

Next ==
  \/ LoadLearnedMappings
  \/ HandleFileUpload
  \/ HandleFileUploadFailed
  \/ HandleToggleAnonymization
  \/ HandleClearData
  \/ HandleUpdateTransaction
  \/ Tick

Spec == Init /\ [][Next]_vars

-----------------------------------------------------------------------------
(* The pipeline stage by stage, on every batch of at most MaxBatch rows    *)

RECURSIVE seqsUpTo(_, _)
seqsUpTo(S, n) ==
  IF n = 0 THEN {<<>>}
  ELSE LET shorter == seqsUpTo(S, n - 1)
       IN  shorter \cup {Append(b, r) : b \in {c \in shorter : Len(c) = n - 1}, r \in S}

\* parseFile returns the rows sorted by date, the most recent first
\* (src/unnamed/part_010 lines 490-493 and 413-416); rows of one date keep the order
\* of the file
sortedByDateDescending(raws) ==
  \A i, j \in DOMAIN raws : i < j => dayNumber(raws[i].date) >= dayNumber(raws[j].date)

\* the results of parseFile with at most n rows drawn from S
parsedFiles(S, n) == {raws \in seqsUpTo(S, n) : sortedByDateDescending(raws)}

Batches == parsedFiles(Rows, MaxBatch)

PipelineInit ==
  /\ rawTransactionsRef \in Batches
  /\ anonymizationEnabled \in BOOLEAN
  /\ learnedMappings \in {setLearnedMappings(m) : m \in LearnedTables}
  /\ transactions = <<>>
  /\ error = FALSE
  /\ store = EmptyStore
  /\ now = 0
  /\ run = [NoRun EXCEPT !.stage = "start", !.anonymize = anonymizationEnabled]
  /\ fileNo = 1
  /\ storeFile = 0
  /\ summary = NoSummary
  /\ parse = NoParse

\* anonymizeTransactions(raw) or processWithoutAnonymization(raw), lines 37-39
ProcessStep ==
  /\ run.stage = "start"
  /\ \E a \in {processStage(store, rawTransactionsRef, anonymizationEnabled, now)} :
         /\ store' = a.store
         /\ run' = [run EXCEPT !.stage = IF a.threw THEN "threw" ELSE "processed",
                               !.mappings = a.mappings,
                               !.processed = a.transactions]
         /\ error' = a.threw
         /\ storeFile' = IF anonymizationEnabled THEN fileNo ELSE storeFile
  /\ UNCHANGED <<rawTransactionsRef, transactions, anonymizationEnabled, learnedMappings,
                 now, fileNo, parse, summary>>

\* categorizeWithRules(processed), line 42
CategorizeStep ==
  /\ run.stage = "processed"
  /\ run' = [run EXCEPT !.stage = "categorized",
                        !.categorized = categorizeWithRules(learnedMappings, run.processed)]
  /\ UNCHANGED <<rawTransactionsRef, transactions, anonymizationEnabled, error, store,
                 learnedMappings, now, fileNo, storeFile, parse, summary>>

\* detectDoubleBookings(categorized), line 45
DetectStep ==
  /\ run.stage = "categorized"
  /\ \E d \in {detectDoubleBookings(run.categorized)} :
         run' = [run EXCEPT !.stage = "detected",
                            !.withDoubleBookings = d.transactions,
                            !.pairs = d.pairs,
                            !.markedAsInternal = d.markedAsInternal]
  /\ UNCHANGED <<rawTransactionsRef, transactions, anonymizationEnabled, error, store,
                 learnedMappings, now, fileNo, storeFile, parse, summary>>

\* detectRecurring(withDoubleBookings), line 48, and setTransactions(processed)
RecurringStep ==
  /\ run.stage = "detected"
  /\ \E result \in {detectRecurring(run.withDoubleBookings)} :
         /\ run' = [run EXCEPT !.stage = "done", !.result = result]
         /\ transactions' = result
  /\ UNCHANGED <<rawTransactionsRef, anonymizationEnabled, error, store, learnedMappings,
                 now, fileNo, storeFile, parse, summary>>

\* clearAnonymizationData(), analysis.ts lines 576-578
ClearAnonymizationData ==
  /\ run.stage = "done"
  /\ store' = clear(store)
  /\ run' = [run EXCEPT !.stage = "cleared"]
  /\ UNCHANGED <<rawTransactionsRef, transactions, anonymizationEnabled, error,
                 learnedMappings, now, fileNo, storeFile, parse, summary>>

PipelineNext ==
  \/ ProcessStep
  \/ CategorizeStep
  \/ DetectStep
  \/ RecurringStep
  \/ ClearAnonymizationData

PipelineSpec == PipelineInit /\ [][PipelineNext]_vars

-----------------------------------------------------------------------------
(* The pipeline on rows that exercise the categorizer                      *)

\* a RawTransaction (types.ts lines 44-57) in EUR without counterparty and without
\* reference account
rawTransaction(date, description, amount, category, subcategory, isTransfer) ==
  [date |-> date,
   description |-> description,
   amount |-> amount,
   currency |-> <<"E","U","R">>,
   category |-> category,
   subcategory |-> subcategory,
   recipient |-> <<>>,
   recipientIban |-> <<>>,
   referenceAccount |-> <<>>,
   referenceAccountName |-> <<>>,
   isTransfer |-> isTransfer]

\* the rows the batches of the categorizer specification are drawn from
CategorizerRows ==
  {
   \* -23.45 EUR "REWE SAGT DANKE" 2024-05-02, no source category
   rawTransaction(<<2024, 5, 2>>, <<"R","E","W","E"," ","S","A","G","T"," ","D","A","N","K","E">>,
                  -2345, <<>>, <<>>, FALSE),
   \* -15.00 EUR "Uber Eats order" 2024-05-02: matched by the rules of lines 12 and 35
   rawTransaction(<<2024, 5, 2>>, <<"U","b","e","r"," ","E","a","t","s"," ","o","r","d","e","r">>,
                  -1500, <<>>, <<>>, FALSE),
   \* -40.00 EUR "REWE Markt" 2024-05-03, source category Wohnen/Strom
   rawTransaction(<<2024, 5, 3>>, <<"R","E","W","E"," ","M","a","r","k","t">>,
                  -4000, <<"W","o","h","n","e","n">>, <<"S","t","r","o","m">>, FALSE),
   \* +100.00 EUR "Finanzamt Erstattung" 2024-05-03, source category Finanzen/Steuern
   rawTransaction(<<2024, 5, 3>>, <<"F","i","n","a","n","z","a","m","t"," ","E","r","s","t","a","t","t","u","n","g">>,
                  10000, <<"F","i","n","a","n","z","e","n">>, <<"S","t","e","u","e","r","n">>, FALSE),
   \* -3.00 EUR "Kiosk" 2024-05-04, source category Sonstiges
   rawTransaction(<<2024, 5, 4>>, <<"K","i","o","s","k">>,
                  -300, <<"S","o","n","s","t","i","g","e","s">>, <<>>, FALSE),
   \* -20.00 EUR "Umbuchung REWE" 2024-05-04
   rawTransaction(<<2024, 5, 4>>, <<"U","m","b","u","c","h","u","n","g"," ","R","E","W","E">>,
                  -2000, <<>>, <<>>, FALSE),
   \* -20.00 EUR "REWE" 2024-05-05, flagged as a transfer by the source
   rawTransaction(<<2024, 5, 5>>, <<"R","E","W","E">>,
                  -2000, <<>>, <<>>, TRUE),
   \* 0.00 EUR "Kiosk" 2024-05-05, no source category
   rawTransaction(<<2024, 5, 5>>, <<"K","i","o","s","k">>,
                  0, <<>>, <<>>, FALSE),
   \* -1.00 EUR "REWE SAGT DANKE" 2024-05-06, source category "constructor"
   rawTransaction(<<2024, 5, 6>>, <<"R","E","W","E"," ","S","A","G","T"," ","D","A","N","K","E">>,
                  -100, <<"c","o","n","s","t","r","u","c","t","o","r">>, <<>>, FALSE)
  }

\* what getLearnedMappings() may return: the API accepts every non-empty merchant and
\* category (api/src/transaction/transaction.module.ts, SaveMappingSchema)
CategorizerLearnedTables ==
  {<<>>,
   <<[merchant |-> <<"R","E","W","E">>, category |-> <<"F","a","m","i","l","y">>]>>,
   <<[merchant |-> <<"K","i","o","s","k">>, category |-> <<"H","a","u","s","h","a","l","t">>]>>}

MaxCategorizerBatch == 2

CategorizerInit ==
  /\ rawTransactionsRef \in parsedFiles(CategorizerRows, MaxCategorizerBatch)
  /\ anonymizationEnabled \in BOOLEAN
  /\ learnedMappings \in {setLearnedMappings(m) : m \in CategorizerLearnedTables}
  /\ transactions = <<>>
  /\ error = FALSE
  /\ store = EmptyStore
  /\ now = 0
  /\ run = [NoRun EXCEPT !.stage = "start", !.anonymize = anonymizationEnabled]
  /\ fileNo = 1
  /\ storeFile = 0
  /\ summary = NoSummary
  /\ parse = NoParse

CategorizerSpec == CategorizerInit /\ [][PipelineNext]_vars

-----------------------------------------------------------------------------
(* The pipeline on rows that exercise the recurrence detector              *)

Netflix == <<"N","e","t","f","l","i","x">>

\* the rows the batches of the recurrence specification are drawn from, all with the
\* description 'Netflix'; every expense has the rounded amount 13
RecurringRows ==
  {
   \* -12.99 EUR 2024-01-01
   rawTransaction(<<2024, 1, 1>>, Netflix, -1299, <<>>, <<>>, FALSE),
   \* -12.99 EUR 2024-02-01, 31 days later
   rawTransaction(<<2024, 2, 1>>, Netflix, -1299, <<>>, <<>>, FALSE),
   \* -12.99 EUR 2024-03-03, 31 days later
   rawTransaction(<<2024, 3, 3>>, Netflix, -1299, <<>>, <<>>, FALSE),
   \* -12.99 EUR 2024-04-01, 91 days after 2024-01-01
   rawTransaction(<<2024, 4, 1>>, Netflix, -1299, <<>>, <<>>, FALSE),
   \* -12.99 EUR 2025-01-01, 366 days after 2024-01-01
   rawTransaction(<<2025, 1, 1>>, Netflix, -1299, <<>>, <<>>, FALSE),
   \* -12.50 EUR 2024-01-01
   rawTransaction(<<2024, 1, 1>>, Netflix, -1250, <<>>, <<>>, FALSE),
   \* -13.49 EUR 2024-01-13, 12 days after 2024-01-01
   rawTransaction(<<2024, 1, 13>>, Netflix, -1349, <<>>, <<>>, FALSE),
   \* -13.15 EUR 2024-02-01
   rawTransaction(<<2024, 2, 1>>, Netflix, -1315, <<>>, <<>>, FALSE),
   \* +12.99 EUR 2024-02-01, a refund
   rawTransaction(<<2024, 2, 1>>, Netflix, 1299, <<>>, <<>>, FALSE)
  }

MaxRecurringBatch == 3

RecurringInit ==
  /\ rawTransactionsRef \in parsedFiles(RecurringRows, MaxRecurringBatch)
  /\ anonymizationEnabled = FALSE
  /\ learnedMappings = <<>>
  /\ transactions = <<>>
  /\ error = FALSE
  /\ store = EmptyStore
  /\ now = 0
  /\ run = [NoRun EXCEPT !.stage = "start", !.anonymize = anonymizationEnabled]
  /\ fileNo = 1
  /\ storeFile = 0
  /\ summary = NoSummary
  /\ parse = NoParse

RecurringSpec == RecurringInit /\ [][PipelineNext]_vars

-----------------------------------------------------------------------------
(* The pipeline on rows that exercise the internal-transfer detector       *)

\* a RawTransaction (types.ts lines 44-57) in EUR without source category
transferRow(date, description, amount, recipient, recipientIban, referenceAccount,
            referenceAccountName, isTransfer) ==
  [date |-> date,
   description |-> description,
   amount |-> amount,
   currency |-> <<"E","U","R">>,
   category |-> <<>>,
   subcategory |-> <<>>,
   recipient |-> recipient,
   recipientIban |-> recipientIban,
   referenceAccount |-> referenceAccount,
   referenceAccountName |-> referenceAccountName,
   isTransfer |-> isTransfer]

\* the rows the batches of the detector specification are drawn from
DetectorRows ==
  {
   \* -50.00 EUR "Kiosk" 2024-05-01 to Jane Roe
   transferRow(<<2024, 5, 1>>, <<"K","i","o","s","k">>, -5000,
               <<"J","a","n","e"," ","R","o","e">>, <<>>,
               <<>>, <<>>, FALSE),
   \* +50.00 EUR "Kiosk" 2024-05-01 on the own account DE12500105170000001234 of Jane Roe
   transferRow(<<2024, 5, 1>>, <<"K","i","o","s","k">>, 5000,
               <<>>, <<>>,
               <<"D","E","1","2","5","0","0","1","0","5","1","7","0","0","0","0","0","0","1","2","3","4">>, <<"J","a","n","e"," ","R","o","e">>, FALSE),
   \* +50.01 EUR "Kiosk" 2024-05-01 from ING
   transferRow(<<2024, 5, 1>>, <<"K","i","o","s","k">>, 5001,
               <<"I","N","G">>, <<>>,
               <<>>, <<>>, FALSE),
   \* -3.50 EUR "Kiosk" 2024-05-01 on the own account named ING
   transferRow(<<2024, 5, 1>>, <<"K","i","o","s","k">>, -350,
               <<>>, <<>>,
               <<>>, <<"I","N","G">>, FALSE),
   \* -50.00 EUR "Umbuchung" 2024-05-01
   transferRow(<<2024, 5, 1>>, <<"U","m","b","u","c","h","u","n","g">>, -5000,
               <<>>, <<>>,
               <<>>, <<>>, FALSE),
   \* +50.00 EUR "Moved from savings" 2024-05-01
   transferRow(<<2024, 5, 1>>, <<"M","o","v","e","d"," ","f","r","o","m"," ","s","a","v","i","n","g","s">>, 5000,
               <<>>, <<>>,
               <<>>, <<>>, FALSE),
   \* +50.01 EUR "Kiosk" 2024-05-01, flagged as a transfer by the source
   transferRow(<<2024, 5, 1>>, <<"K","i","o","s","k">>, 5001,
               <<>>, <<>>,
               <<>>, <<>>, TRUE),
   \* -50.01 EUR "Kiosk" 2024-05-01 to the IBAN DE12500105170000001234
   transferRow(<<2024, 5, 1>>, <<"K","i","o","s","k">>, -5001,
               <<>>, <<"D","E","1","2","5","0","0","1","0","5","1","7","0","0","0","0","0","0","1","2","3","4">>,
               <<>>, <<>>, FALSE),
   \* +50.00 EUR "Internal transfer" 2024-05-02
   transferRow(<<2024, 5, 2>>, <<"I","n","t","e","r","n","a","l"," ","t","r","a","n","s","f","e","r">>, 5000,
               <<>>, <<>>,
               <<>>, <<>>, FALSE)
  }

MaxDetectorBatch == 3

DetectorInit ==
  /\ rawTransactionsRef \in parsedFiles(DetectorRows, MaxDetectorBatch)
  /\ anonymizationEnabled \in BOOLEAN
  /\ learnedMappings = <<>>
  /\ transactions = <<>>
  /\ error = FALSE
  /\ store = EmptyStore
  /\ now = 0
  /\ run = [NoRun EXCEPT !.stage = "start", !.anonymize = anonymizationEnabled]
  /\ fileNo = 1
  /\ storeFile = 0
  /\ summary = NoSummary
  /\ parse = NoParse

DetectorSpec == DetectorInit /\ [][PipelineNext]_vars

(***************************************************************************)
(* Amount cells and their parsing                                          *)
(***************************************************************************)

MaxGroups == 3

MaxDigits == 8

DigitGroups == {<<"1">>, <<"1","2">>, <<"2","3","4">>, <<"5","6">>, <<"9","9">>, <<"5","0">>}

\* digit groups joined by '.' or ','
RECURSIVE groupedDigits(_)
groupedDigits(n) ==
  IF n = 1 THEN DigitGroups
  ELSE {c \o <<sep>> \o g : c \in groupedDigits(n - 1), sep \in {".", ","}, g \in DigitGroups}

\* the amount column of a row: empty, or a signed grouped number of at most
\* MaxDigits digits that may carry a currency
AmountCells ==
  {<<>>} \cup
  {sign \o digits \o currency :
     sign \in {<<>>, <<"-">>},
     digits \in {g \in UNION {groupedDigits(n) : n \in 1..MaxGroups} :
                   Len(onlyChars(g, DigitChars)) <= MaxDigits},
     currency \in {<<>>, <<" ","E","U","R">>}}

ParserInit ==
  /\ parse \in {[NoParse EXCEPT !.stage = "cell", !.cell = c] : c \in AmountCells}
  /\ rawTransactionsRef = <<>>
  /\ transactions = <<>>
  /\ anonymizationEnabled = FALSE
  /\ error = FALSE
  /\ store = EmptyStore
  /\ learnedMappings = <<>>
  /\ now = 0
  /\ run = NoRun
  /\ fileNo = 0
  /\ storeFile = 0
  /\ summary = NoSummary

\* processRows: mapped.amount = parseNumber(value) (line 458)
ParseNumber ==
  /\ parse.stage = "cell"
  /\ parse' = [parse EXCEPT !.stage = "number", !.number = parseNumber(parse.cell)]
  /\ UNCHANGED <<rawTransactionsRef, transactions, anonymizationEnabled, error, store,
                 learnedMappings, now, run, fileNo, storeFile, summary>>

ParserNext == ParseNumber

ParserSpec == ParserInit /\ [][ParserNext]_vars

(***************************************************************************)
(* Files and their parsing                                                 *)
(***************************************************************************)

MaxFileRows == 3

\* a row of a file: the cells of its date, amount and description columns
fileRow(date, amount, description) ==
  [date |-> date, amount |-> amount, description |-> description]

FileRows ==
  {fileRow(<<"0","1",".","0","5",".","2","0","2","4">>, <<"1","2",",","9","9">>, <<"A">>),
   fileRow(<<"2","0","2","4","-","0","5","-","0","2">>, <<"-","5",".","0","0">>, <<"B">>),
   fileRow(<<"5","/","4","/","2","0","2","4">>, <<"1",".","2","3","4",",","5","6">>, <<"C">>),
   fileRow(<<"f","o","o">>, <<"1","2",",","9","9">>, <<"D">>),
   fileRow(<<>>, <<"1","2",",","9","9">>, <<"E">>),
   fileRow(<<"0","3",".","0","5",".","2","0","2","4">>, <<>>, <<"F">>),
   fileRow(<<"0","3",".","0","5",".","2","0","2","4">>, <<"a","b","c">>, <<"G">>),
   fileRow(<<"2","0","2","4","0","5","0","6">>, <<"7",".","5","0">>, <<"H">>),
   fileRow(<<>>, <<>>, <<" ">>)}

\* the columns a file can have
HeaderSets == {{"date", "amount", "description"}, {"date", "description"}}

\* the name and MIME type of a file
FileKinds ==
  {[ext |-> ".csv", type |-> "text/csv"],
   [ext |-> ".xlsx", type |-> ""],
   [ext |-> ".ofx", type |-> ""],
   [ext |-> ".txt", type |-> "text/plain"],
   [ext |-> ".txt", type |-> "text/csv"]}

\* the files a user can choose: of every kind, readable or not, with at most
\* MaxFileRows data rows; a column the file does not have has no cells
UploadedFiles ==
  {[ext |-> kind.ext, type |-> kind.type, readable |-> readable, headers |-> headers,
    rows |-> rows] :
     kind \in FileKinds, readable \in BOOLEAN, headers \in HeaderSets,
     rows \in seqsUpTo(FileRows, MaxFileRows)}

FileInit ==
  /\ parse \in {[NoParse EXCEPT !.stage = "file", !.file = f] :
                  f \in {g \in UploadedFiles :
                           \A i \in DOMAIN g.rows :
                             "amount" \in g.headers \/ g.rows[i].amount = <<>>}}
  /\ rawTransactionsRef = <<>>
  /\ transactions = <<>>
  /\ anonymizationEnabled = FALSE
  /\ error = FALSE
  /\ store = EmptyStore
  /\ learnedMappings = <<>>
  /\ now = 0
  /\ run = NoRun
  /\ fileNo = 0
  /\ storeFile = 0
  /\ summary = NoSummary

\* handleFileUpload: await parseFile(file) (App.tsx line 57)
ParseFile ==
  /\ parse.stage = "file"
  /\ \E result \in parseFile(parse.file) :
       parse' = [parse EXCEPT !.stage = "parsed", !.result = result]
  /\ UNCHANGED <<rawTransactionsRef, transactions, anonymizationEnabled, error, store,
                 learnedMappings, now, run, fileNo, storeFile, summary>>

FileNext == ParseFile

FileSpec == FileInit /\ [][FileNext]_vars

-----------------------------------------------------------------------------
(* The pipeline followed by getRecurringSummary on its result              *)

\* the rows the batches of the summary specification are drawn from
SummaryRows ==
  {
   \* -3.00 EUR 'Kiosk' 2024-01-01
   rawTransaction(<<2024, 1, 1>>, <<"K","i","o","s","k">>, -300, <<>>, <<>>, FALSE),
   \* -3.00 EUR 'Kiosk' 2024-02-01, 31 days later
   rawTransaction(<<2024, 2, 1>>, <<"K","i","o","s","k">>, -300, <<>>, <<>>, FALSE),
   \* -3.00 EUR 'KIOSK' 2024-03-03, 31 days later
   rawTransaction(<<2024, 3, 3>>, <<"K","I","O","S","K">>, -300, <<>>, <<>>, FALSE),
   \* +3.00 EUR 'Kiosk' 2024-02-01, a refund
   rawTransaction(<<2024, 2, 1>>, <<"K","i","o","s","k">>, 300, <<>>, <<>>, FALSE),
   \* -12.99 EUR 'Netflix' 2024-01-01
   rawTransaction(<<2024, 1, 1>>, <<"N","e","t","f","l","i","x">>, -1299, <<>>, <<>>, FALSE),
   \* -12.99 EUR 'Netflix' 2024-01-08, 7 days later
   rawTransaction(<<2024, 1, 8>>, <<"N","e","t","f","l","i","x">>, -1299, <<>>, <<>>, FALSE),
   \* -13.15 EUR 'Netflix' 2024-04-01, 91 days after 2024-01-01
   rawTransaction(<<2024, 4, 1>>, <<"N","e","t","f","l","i","x">>, -1315, <<>>, <<>>, FALSE),
   \* -12.99 EUR 'Netflix' 2025-01-01, 366 days after 2024-01-01
   rawTransaction(<<2025, 1, 1>>, <<"N","e","t","f","l","i","x">>, -1299, <<>>, <<>>, FALSE)
  }

MaxSummaryBatch == 4

SummaryInit ==
  /\ rawTransactionsRef \in parsedFiles(SummaryRows, MaxSummaryBatch)
  /\ anonymizationEnabled = FALSE
  /\ learnedMappings = <<>>
  /\ transactions = <<>>
  /\ error = FALSE
  /\ store = EmptyStore
  /\ now = 0
  /\ run = [NoRun EXCEPT !.stage = "start", !.anonymize = anonymizationEnabled]
  /\ fileNo = 1
  /\ storeFile = 0
  /\ summary = NoSummary
  /\ parse = NoParse

\* getRecurringSummary called on what processTransactions returned
GetRecurringSummary ==
  /\ run.stage \in {"done", "cleared"}
  /\ summary.stage = "idle"
  /\ summary' = getRecurringSummary(run.result)
  /\ UNCHANGED <<rawTransactionsRef, transactions, anonymizationEnabled, error, store,
                 learnedMappings, now, run, fileNo, storeFile, parse>>

SummaryNext ==
  \/ PipelineNext
  \/ GetRecurringSummary

SummarySpec == SummaryInit /\ [][SummaryNext]_vars

-----------------------------------------------------------------------------
(* Properties                                                              *)

\* the stages from which `run` holds the result of anonymizeTransactions
Processed == run.stage \in {"processed", "categorized", "detected", "done", "cleared"}

\* the stages from which `run` holds the result of detectDoubleBookings
Detected == run.stage \in {"detected", "done", "cleared"}

PersonPrefix == <<"P","e","r","s","o","n","_">>

containsKnownMerchant(name) ==
  \E merchant \in KNOWN_MERCHANTS : includes(toLowerCase(name), merchant)

containsLegalSuffix(name) ==
  \E k \in DOMAIN BUSINESS_SUFFIXES : includes(toLowerCase(name), BUSINESS_SUFFIXES[k])

\* the ids that occur in the pair p
pairIds(p) == {p.outgoing.id, p.incoming.id}

\* C1: after the pipeline, every output transaction with category 'Transfer' and type
\* 'income' has isExcluded = true, for every batch and every learned-mappings table.
C1_TransferIncomeExcluded ==
  run.stage = "done" =>
    \A k \in DOMAIN run.result :
      (run.result[k].category = Transfer /\ run.result[k].type = "income")
        => run.result[k].isExcluded

\* C2: the pipeline on the two rows (a) -50.00 'Transfer to Wise' on 'N26' and
\* (b) +50.00 'From N26' on 'Wise' of 2024-05-01 gives both rows category 'Transfer',
\* (b) excluded, (a) not excluded, and each row's doubleBookingMatch the other's id.
C2_TwoRowExample ==
  (run.stage = "done" /\ rawTransactionsRef = <<RowTransferToWise, RowFromN26>>) =>
    /\ run.result[1].category = Transfer
    /\ run.result[2].category = Transfer
    /\ run.result[2].isExcluded
    /\ ~run.result[1].isExcluded
    /\ run.result[1].doubleBookingMatch = run.result[2].id
    /\ run.result[2].doubleBookingMatch = run.result[1].id

\* C3: for every mapping anonymizeTransactions returned, getOriginalValue(anonymized)
\* is that mapping's original; after clearAnonymizationData() every reverse lookup
\* returns undefined.
C3_ReverseLookup ==
  /\ (run.stage = "processed" /\ run.anonymize) =>
       \A k \in DOMAIN run.mappings :
         getOriginalValue(store, run.mappings[k].anonymized) = run.mappings[k].original
  /\ run.stage = "cleared" =>
       \A k \in DOMAIN run.mappings :
         getOriginalValue(store, run.mappings[k].anonymized) = Undefined

\* C4: once a newly imported file has been processed, after any sequence of imports
\* and anonymization toggles, the store holds no mapping created for an earlier file.
C4_StoreClearedOnImport ==
  (fileNo > 0 /\ store.mappings # <<>>) => storeFile = fileNo

\* C5: every transaction detectDoubleBookings flags as internal, paired or not, has
\* category 'Transfer' and isTransfer = true in the output, and isExcluded exactly
\* when its type is 'income'.
C5_InternalMarked ==
  Detected =>
    \A k \in DOMAIN run.withDoubleBookings :
      run.withDoubleBookings[k].id \in run.markedAsInternal =>
        /\ run.withDoubleBookings[k].category = Transfer
        /\ run.withDoubleBookings[k].isTransfer
        /\ run.withDoubleBookings[k].isExcluded
             <=> (run.withDoubleBookings[k].type = "income")

C5_Witness ==
  /\ run.stage = "detected"
  /\ run.pairs # <<>>
  /\ \E i, j, k \in DOMAIN run.withDoubleBookings :
       /\ {run.withDoubleBookings[i].id, run.withDoubleBookings[j].id,
           run.withDoubleBookings[k].id} \subseteq run.markedAsInternal
       /\ run.withDoubleBookings[i].type = "expense"
       /\ run.withDoubleBookings[j].type = "income"
       /\ run.withDoubleBookings[j].doubleBookingMatch # NoId
       /\ run.withDoubleBookings[k].type = "income"
       /\ run.withDoubleBookings[k].doubleBookingMatch = NoId

\* C6: in every pair detectDoubleBookings produces, the outgoing transaction is an
\* expense, the incoming one an income, their amounts differ by at most 0.01 (one
\* cent) and their dates are equal.
C6_PairsWellFormed ==
  Detected =>
    \A k \in DOMAIN run.pairs :
      /\ run.pairs[k].outgoing.type = "expense"
      /\ run.pairs[k].incoming.type = "income"
      /\ absDiff(run.pairs[k].outgoing.amount, run.pairs[k].incoming.amount) <= 1
      /\ run.pairs[k].outgoing.date = run.pairs[k].incoming.date

\* a pair one cent apart, beside an internal income of the same day and another amount
C6_Witness ==
  /\ run.stage = "detected"
  /\ \E k \in DOMAIN run.pairs :
       /\ absDiff(run.pairs[k].outgoing.amount, run.pairs[k].incoming.amount) = 1
       /\ \E j \in DOMAIN run.categorized :
            /\ run.categorized[j].id \in run.markedAsInternal
            /\ run.categorized[j].type = "income"
            /\ run.categorized[j].date = run.pairs[k].outgoing.date
            /\ absDiff(run.categorized[j].amount, run.pairs[k].outgoing.amount) > 1

\* C7: the pairs form a matching over the internal-flagged transactions: an id is in
\* at most one pair, doubleBookingMatch is set exactly on the paired transactions,
\* and a.doubleBookingMatch = b.id exactly when b.doubleBookingMatch = a.id.
C7_PairsMatching ==
  Detected =>
    /\ \A i \in DOMAIN run.pairs :
         /\ run.pairs[i].outgoing.id # run.pairs[i].incoming.id
         /\ pairIds(run.pairs[i]) \subseteq run.markedAsInternal
         /\ \A j \in DOMAIN run.pairs :
              i # j => pairIds(run.pairs[i]) \cap pairIds(run.pairs[j]) = {}
    /\ \A a \in DOMAIN run.withDoubleBookings :
         /\ run.withDoubleBookings[a].doubleBookingMatch # NoId
              <=> \E i \in DOMAIN run.pairs :
                    run.withDoubleBookings[a].id \in pairIds(run.pairs[i])
         /\ \A b \in DOMAIN run.withDoubleBookings :
              run.withDoubleBookings[a].doubleBookingMatch = run.withDoubleBookings[b].id
                <=> run.withDoubleBookings[b].doubleBookingMatch
                      = run.withDoubleBookings[a].id

\* a pair, beside an internal expense of the same day and amount that stays unpaired
C7_Witness ==
  /\ run.stage = "detected"
  /\ \E i \in DOMAIN run.pairs :
       \E a \in DOMAIN run.withDoubleBookings :
         /\ run.withDoubleBookings[a].id \in run.markedAsInternal
         /\ run.withDoubleBookings[a].type = "expense"
         /\ run.withDoubleBookings[a].date = run.pairs[i].outgoing.date
         /\ run.withDoubleBookings[a].amount = run.pairs[i].outgoing.amount
         /\ run.withDoubleBookings[a].doubleBookingMatch = NoId

\* C8: within one anonymizeTransactions batch (type, original) determines the
\* anonymized value: equal original recipients, and equal original IBANs, of any two
\* rows are replaced by equal values, and the returned mappings hold one value a key.
C8_MappingIsFunction ==
  (Processed /\ run.anonymize) =>
    /\ \A i, j \in DOMAIN run.processed :
         /\ rawTransactionsRef[i].recipient = rawTransactionsRef[j].recipient
              => run.processed[i].recipient = run.processed[j].recipient
         /\ rawTransactionsRef[i].recipientIban = rawTransactionsRef[j].recipientIban
              => run.processed[i].recipientIban = run.processed[j].recipientIban
    /\ \A m, n \in DOMAIN run.mappings :
         (/\ run.mappings[m].type = run.mappings[n].type
          /\ run.mappings[m].original = run.mappings[n].original)
           => run.mappings[m].anonymized = run.mappings[n].anonymized

\* two different rows with the same personal recipient, replaced by a pseudonym
C8_Witness ==
  /\ run.stage = "processed"
  /\ run.anonymize
  /\ \E i, j \in DOMAIN run.processed :
       /\ rawTransactionsRef[i] # rawTransactionsRef[j]
       /\ rawTransactionsRef[i].recipient = rawTransactionsRef[j].recipient
       /\ run.processed[i].recipient # rawTransactionsRef[i].recipient
  /\ \E m \in DOMAIN run.mappings : run.mappings[m].type = "iban"

\* C9: a recipient that contains a known-merchant substring is not replaced by
\* anonymizeTransactions: the output recipient is the input recipient, and no 'name'
\* mapping is created for it.
C9_MerchantKept ==
  (Processed /\ run.anonymize) =>
    \A k \in DOMAIN run.processed :
      containsKnownMerchant(rawTransactionsRef[k].recipient) =>
        /\ run.processed[k].recipient = rawTransactionsRef[k].recipient
        /\ ~startsWith(run.processed[k].recipient, PersonPrefix)
        /\ \A m \in DOMAIN run.mappings :
             ~(/\ run.mappings[m].type = "name"
               /\ run.mappings[m].original = rawTransactionsRef[k].recipient)

\* a merchant's row in a batch that also has a pseudonymized person
C9_Witness ==
  /\ run.stage = "processed"
  /\ run.anonymize
  /\ \E k \in DOMAIN run.processed :
       containsKnownMerchant(rawTransactionsRef[k].recipient)
  /\ \E m \in DOMAIN run.mappings : run.mappings[m].type = "name"

\* C10 (as stated): every non-empty recipient with neither a known-merchant substring
\* nor a legal-entity suffix is replaced by a Person_-prefixed pseudonym, and the
\* original recipient string never appears in the output recipient field.
C10_OriginalNeverAppears ==
  (Processed /\ run.anonymize) =>
    \A k \in DOMAIN run.processed :
      (/\ rawTransactionsRef[k].recipient # <<>>
       /\ ~containsKnownMerchant(rawTransactionsRef[k].recipient)
       /\ ~containsLegalSuffix(rawTransactionsRef[k].recipient)) =>
        /\ startsWith(run.processed[k].recipient, PersonPrefix)
        /\ \A j \in DOMAIN run.processed :
             run.processed[j].recipient # rawTransactionsRef[k].recipient

\* C10 (amended): every such recipient is replaced by the Person_-prefixed pseudonym
\* the returned mappings record for it, and an original that does not itself begin
\* with Person_ appears in no output recipient field.
C10_Pseudonymized ==
  (Processed /\ run.anonymize) =>
    \A k \in DOMAIN run.processed :
      (/\ rawTransactionsRef[k].recipient # <<>>
       /\ ~containsKnownMerchant(rawTransactionsRef[k].recipient)
       /\ ~containsLegalSuffix(rawTransactionsRef[k].recipient)) =>
        /\ startsWith(run.processed[k].recipient, PersonPrefix)
        /\ \E m \in DOMAIN run.mappings :
             /\ run.mappings[m].type = "name"
             /\ run.mappings[m].original = rawTransactionsRef[k].recipient
             /\ run.mappings[m].anonymized = run.processed[k].recipient
        /\ ~startsWith(rawTransactionsRef[k].recipient, PersonPrefix) =>
             \A j \in DOMAIN run.processed :
               run.processed[j].recipient # rawTransactionsRef[k].recipient

\* a person's recipient replaced by a different string, beside a recipient that is
\* itself the pseudonym issued for it
C10_Witness ==
  /\ run.stage = "processed"
  /\ run.anonymize
  /\ \E k, j \in DOMAIN run.processed :
       /\ rawTransactionsRef[k].recipient # <<>>
       /\ ~isLikelyBusiness(rawTransactionsRef[k].recipient)
       /\ run.processed[k].recipient # rawTransactionsRef[k].recipient
       /\ startsWith(rawTransactionsRef[j].recipient, PersonPrefix)
       /\ run.processed[j].recipient = rawTransactionsRef[j].recipient
-----------------------------------------------------------------------------
(* Properties of the processing stage and of the categorizer               *)

\* the stages from which `run` holds the result of categorizeWithRules
Categorized == run.stage \in {"categorized", "detected", "done", "cleared"}

\* C11: every transaction produced by anonymizeTransactions or by
\* processWithoutAnonymization has an amount >= 0 that is the absolute value of the
\* raw signed amount, and the type 'income' exactly when the raw signed amount is >= 0
\* (otherwise 'expense').
C11_AmountAndType ==
  Processed =>
    \A k \in DOMAIN run.processed :
      /\ run.processed[k].amount >= 0
      /\ run.processed[k].amount \in {rawTransactionsRef[k].amount, -rawTransactionsRef[k].amount}
      /\ run.processed[k].type = "income" <=> rawTransactionsRef[k].amount >= 0
      /\ run.processed[k].type \in {"income", "expense"}

\* anonymizeTransactions has processed a batch with a negative and a zero raw amount
C11_Witness ==
  /\ run.stage = "processed"
  /\ run.anonymize
  /\ \E k \in DOMAIN run.processed : rawTransactionsRef[k].amount < 0
  /\ \E k \in DOMAIN run.processed : rawTransactionsRef[k].amount = 0

\* the transaction is flagged as a transfer or its description matches a transfer
\* pattern
transferMatch(tx) ==
  tx.isTransfer \/ \E k \in DOMAIN TRANSFER_PATTERNS : regexTest(tx.description, TRANSFER_PATTERNS[k])

\* the value of the translation table's own entry for the transaction's source
\* category: the combined key first, then the bare category; empty when there is none
translation(tx) ==
  LET own(key) == {p \in GERMAN_CATEGORY_MAP : p[1] = key}
      combined == tx.category \o <<"/">> \o tx.subcategory
  IN  IF tx.category = <<>> THEN <<>>
      ELSE IF tx.subcategory # <<>> /\ own(combined) # {}
      THEN (CHOOSE p \in own(combined) : TRUE)[2]
      ELSE IF own(tx.category) # {} THEN (CHOOSE p \in own(tx.category) : TRUE)[2]
      ELSE <<>>

\* the rules whose pattern matches the text built from the transaction
matchingRules(tx) ==
  {r \in DOMAIN MERCHANT_RULES : regexTest(textToMatch(tx), MERCHANT_RULES[r].alts)}

\* C12: a transaction that is flagged isTransfer or whose description matches a
\* transfer pattern gets category 'Transfer' even when a learned mapping matches it;
\* otherwise a transaction matched by a learned mapping gets the learned category with
\* categorySource 'learned', even when its source category is translatable or a
\* merchant rule matches.
C12_PriorityOrder ==
  Categorized =>
    \A k \in DOMAIN run.categorized :
      /\ transferMatch(run.processed[k]) => run.categorized[k].category = Transfer
      /\ (~transferMatch(run.processed[k])
            /\ findLearnedCategory(learnedMappings, run.processed[k]) # <<>>)
           => /\ run.categorized[k].category
                   = findLearnedCategory(learnedMappings, run.processed[k])
              /\ run.categorized[k].categorySource = "learned"

\* one batch holds a transfer that a learned mapping matches, and a transaction a
\* learned mapping matches whose source category is translatable and which a rule
\* matches
C12_Witness ==
  /\ run.stage = "categorized"
  /\ \E k \in DOMAIN run.processed :
       /\ transferMatch(run.processed[k])
       /\ findLearnedCategory(learnedMappings, run.processed[k]) # <<>>
       /\ findLearnedCategory(learnedMappings, run.processed[k]) # Transfer
  /\ \E k \in DOMAIN run.processed :
       /\ ~transferMatch(run.processed[k])
       /\ findLearnedCategory(learnedMappings, run.processed[k]) # <<>>
       /\ translation(run.processed[k]) \notin {<<>>, Other}
       /\ matchingRules(run.processed[k]) # {}
       /\ run.categorized[k].category # translation(run.processed[k])

\* C13 as stated: when no transfer match or learned mapping applies and the source
\* category/subcategory has an entry in the translation table, the output category is
\* that entry's value, whether or not a merchant rule matches.
C13_TranslationFirst ==
  Categorized =>
    \A k \in DOMAIN run.categorized :
      (/\ ~transferMatch(run.processed[k])
       /\ findLearnedCategory(learnedMappings, run.processed[k]) = <<>>
       /\ translation(run.processed[k]) # <<>>)
        => run.categorized[k].category = translation(run.processed[k])

\* C13 amended: when no transfer match or learned mapping applies and the source
\* category/subcategory has an entry whose value is not 'Other', the output category
\* is that entry's value, whether or not a merchant rule matches; when the entry's
\* value is 'Other', the output category is that of the first matching merchant rule,
\* and 'Other' only when no rule matches.
C13_TranslationUnlessOther ==
  Categorized =>
    \A k \in DOMAIN run.categorized :
      (/\ ~transferMatch(run.processed[k])
       /\ findLearnedCategory(learnedMappings, run.processed[k]) = <<>>
       /\ translation(run.processed[k]) # <<>>)
        => IF translation(run.processed[k]) # Other
           THEN run.categorized[k].category = translation(run.processed[k])
           ELSE IF matchingRules(run.processed[k]) = {}
           THEN run.categorized[k].category = Other
           ELSE \E r \in matchingRules(run.processed[k]) :
                  /\ \A s \in matchingRules(run.processed[k]) : r <= s
                  /\ run.categorized[k].category = MERCHANT_RULES[r].category

\* a translated source category has won over a matching rule of another category, and
\* a source category translated to 'Other' has given way to a matching rule
C13_Witness ==
  /\ run.stage = "categorized"
  /\ \E k \in DOMAIN run.processed :
       /\ ~transferMatch(run.processed[k])
       /\ findLearnedCategory(learnedMappings, run.processed[k]) = <<>>
       /\ translation(run.processed[k]) \notin {<<>>, Other}
       /\ \E r \in matchingRules(run.processed[k]) :
            MERCHANT_RULES[r].category # translation(run.processed[k])
  /\ \E k \in DOMAIN run.processed :
       /\ ~transferMatch(run.processed[k])
       /\ findLearnedCategory(learnedMappings, run.processed[k]) = <<>>
       /\ translation(run.processed[k]) = Other
       /\ matchingRules(run.processed[k]) # {}

\* C14: every category categorizeWithRules assigns is one of AVAILABLE_CATEGORIES, for
\* every input transaction and every learned-mappings table.
C14_CategoryInVocabulary ==
  Categorized =>
    \A k \in DOMAIN run.categorized :
      \E c \in DOMAIN AVAILABLE_CATEGORIES :
        run.categorized[k].category = AVAILABLE_CATEGORIES[c]

\* C15: when no transfer match, learned mapping or translatable source category
\* applies, the output has the category of the first rule, in table order, whose
\* pattern matches the text, with categorySource 'rule'; 'REWE SAGT DANKE' without a
\* source category gets 'Groceries'; 'Other' is assigned only when no rule matches.
C15_FirstRuleWins ==
  Categorized =>
    \A k \in DOMAIN run.categorized :
      /\ (/\ ~transferMatch(run.processed[k])
          /\ findLearnedCategory(learnedMappings, run.processed[k]) = <<>>
          /\ translation(run.processed[k]) = <<>>)
           => IF matchingRules(run.processed[k]) = {}
              THEN run.categorized[k].category = Other
              ELSE \E r \in matchingRules(run.processed[k]) :
                     /\ \A s \in matchingRules(run.processed[k]) : r <= s
                     /\ run.categorized[k].category = MERCHANT_RULES[r].category
                     /\ run.categorized[k].categorySource = "rule"
      /\ (/\ rawTransactionsRef[k].description
                = <<"R","E","W","E"," ","S","A","G","T"," ","D","A","N","K","E">>
          /\ rawTransactionsRef[k].category = <<>>
          /\ findLearnedCategory(learnedMappings, run.processed[k]) = <<>>)
           => run.categorized[k].category = <<"G","r","o","c","e","r","i","e","s">>

-----------------------------------------------------------------------------
(* Properties of the recurrence detector                                   *)

\* the stages from which `run` holds the result of detectRecurring
Recurred == run.stage \in {"done", "cleared"}

\* detectRecurring's input: neither income nor of category 'Transfer'
eligible(tx) == tx.type = "expense" /\ tx.category # Transfer

\* the indices of the eligible input transactions that share the key of the k-th
keyGroup(k) ==
  {j \in DOMAIN run.withDoubleBookings :
     /\ eligible(run.withDoubleBookings[j])
     /\ groupKey(run.withDoubleBookings[j]) = groupKey(run.withDoubleBookings[k])}

inputDay(i) == dayNumber(run.withDoubleBookings[i].date)

\* the member of G that is first in date order, and first in the input among those of
\* its date
firstMember(G) ==
  CHOOSE i \in G :
    \A j \in G : inputDay(i) < inputDay(j) \/ (inputDay(i) = inputDay(j) /\ i <= j)

RECURSIVE inDateOrder(_)
inDateOrder(G) ==
  IF G = {} THEN <<>> ELSE <<firstMember(G)>> \o inDateOrder(G \ {firstMember(G)})

\* the day-gaps between the consecutive members of G in date order
gapsOf(G) ==
  [i \in 1..(Cardinality(G) - 1) |->
     inputDay(inDateOrder(G)[i + 1]) - inputDay(inDateOrder(G)[i])]

RECURSIVE gapSum(_)
gapSum(gaps) == IF gaps = <<>> THEN 0 ELSE Head(gaps) + gapSum(Tail(gaps))

\* the frequency whose inclusive range holds the average of the gaps, when every gap
\* of several is within 6 days of the average; "none" otherwise
expectedFrequency(gaps) ==
  LET n == Len(gaps)
      sum == gapSum(gaps)
      bucket == IF n = 0 THEN "none"
                ELSE IF 5 * n <= sum /\ sum <= 9 * n THEN "weekly"
                ELSE IF 25 * n <= sum /\ sum <= 35 * n THEN "monthly"
                ELSE IF 80 * n <= sum /\ sum <= 100 * n THEN "quarterly"
                ELSE IF 350 * n <= sum /\ sum <= 380 * n THEN "yearly"
                ELSE "none"
      near == \A i \in DOMAIN gaps : absDiff(gaps[i] * n, sum) <= 6 * n
  IN  IF n > 1 /\ ~near THEN "none" ELSE bucket

\* the batch is the three 12.99 'Netflix' expenses of 2024-01-01, 2024-02-01 and
\* 2024-03-03
netflixExample ==
  /\ Len(rawTransactionsRef) = 3
  /\ {rawTransactionsRef[k].date : k \in 1..3}
       = {<<2024, 1, 1>>, <<2024, 2, 1>>, <<2024, 3, 3>>}
  /\ \A k \in 1..3 :
       rawTransactionsRef[k].amount = -1299 /\ rawTransactionsRef[k].description = Netflix

\* C16: a group of at least 2 eligible expenses with one key whose amounts pass the
\* tolerance check has all its members tagged isRecurring with the frequency weekly,
\* monthly, quarterly or yearly exactly when the average day-gap lies in [5,9],
\* [25,35], [80,100] or [350,380] and, if there is more than one gap, every gap is
\* within 6 days of the average; otherwise no member is tagged.  The three 12.99
\* 'Netflix' expenses of 2024-01-01, 2024-02-01 and 2024-03-03 are all tagged monthly.
C16_FrequencyBuckets ==
  Recurred =>
    /\ \A k \in DOMAIN run.withDoubleBookings :
         (/\ eligible(run.withDoubleBookings[k])
          /\ Cardinality(keyGroup(k)) >= 2
          /\ \A j \in keyGroup(k) :
               isAmountSimilar(run.withDoubleBookings[j].amount,
                               run.withDoubleBookings[firstMember(keyGroup(k))].amount))
           => /\ run.result[k].recurringFrequency = expectedFrequency(gapsOf(keyGroup(k)))
              /\ run.result[k].isRecurring <=> expectedFrequency(gapsOf(keyGroup(k))) # "none"
    /\ netflixExample =>
         \A k \in 1..3 :
           run.result[k].isRecurring /\ run.result[k].recurringFrequency = "monthly"

\* detectRecurring has tagged the three 'Netflix' expenses of the example
C16_Witness ==
  /\ run.stage = "done"
  /\ netflixExample
  /\ \A k \in 1..3 : eligible(run.withDoubleBookings[k]) /\ run.result[k].isRecurring

\* C17 as stated: in every group tagged as recurring each member's amount differs from
\* the amount of the group's earliest-dated member by at most 5% of that first amount;
\* a group with a member outside this tolerance has no member tagged.
C17_WithinFivePercentOfFirst ==
  Recurred =>
    \A k \in DOMAIN run.result :
      run.result[k].isRecurring =>
        \A j \in keyGroup(k) :
          absDiff(run.withDoubleBookings[j].amount,
                  run.withDoubleBookings[firstMember(keyGroup(k))].amount) * 100
            <= 5 * run.withDoubleBookings[firstMember(keyGroup(k))].amount

\* the larger of two amounts
largerOf(a, b) == IF a >= b THEN a ELSE b

\* C17 amended: in every group tagged as recurring each member's amount differs from
\* the amount of the group's first member in date order (among members of one date,
\* the first in the input) by at most 5% of the larger of the two amounts; a group
\* with a member outside this tolerance has no member tagged.
C17_WithinFivePercentOfLarger ==
  Recurred =>
    \A k \in DOMAIN run.result :
      run.result[k].isRecurring =>
        \A j \in keyGroup(k) :
          absDiff(run.withDoubleBookings[j].amount,
                  run.withDoubleBookings[firstMember(keyGroup(k))].amount) * 100
            <= 5 * largerOf(run.withDoubleBookings[j].amount,
                            run.withDoubleBookings[firstMember(keyGroup(k))].amount)

\* a tagged group has a member whose amount is not the first member's
C17_Witness ==
  /\ run.stage = "done"
  /\ \E k \in DOMAIN run.result :
       /\ run.result[k].isRecurring
       /\ run.withDoubleBookings[k].amount
            # run.withDoubleBookings[firstMember(keyGroup(k))].amount

\* the permutations of 1..n
permutations(n) == {p \in [1..n -> 1..n] : \A i, j \in 1..n : p[i] = p[j] => i = j}

\* C18: for two input arrays that are permutations of each other detectRecurring
\* assigns the same isRecurring and recurringFrequency to each transaction id.
C18_OrderIndependent ==
  Recurred =>
    \A p \in permutations(Len(run.withDoubleBookings)) :
      \A i \in DOMAIN run.withDoubleBookings :
        /\ detectRecurring([k \in DOMAIN run.withDoubleBookings |->
                              run.withDoubleBookings[p[k]]])[i].isRecurring
             = run.result[p[i]].isRecurring
        /\ detectRecurring([k \in DOMAIN run.withDoubleBookings |->
                              run.withDoubleBookings[p[k]]])[i].recurringFrequency
             = run.result[p[i]].recurringFrequency

-----------------------------------------------------------------------------
(* Amount parsing (ParserSpec)                                             *)

\* parseNumber has returned
Parsed == parse.stage = "number"

\* the position of the last '.' or ',' of s
lastSeparator(s) ==
  CHOOSE i \in DOMAIN s :
    s[i] \in {".", ","} /\ \A j \in DOMAIN s : j > i => s[j] \notin {".", ","}

\* the characters c of s
occurrences(s, c) == {i \in DOMAIN s : s[i] = c}

\* the decimal value of s when the character at p is the decimal separator:
\* every digit before p is an integer digit, every digit after p a fraction
\* digit
readAt(s, p) ==
  decimalNumber(s[1] = "-",
                SelectSeq(SubSeq(s, 1, p - 1), LAMBDA c : c \in DigitChars),
                SelectSeq(SubSeq(s, p + 1, Len(s)), LAMBDA c : c \in DigitChars))

\* C19: parseNumber returns 1234.56 for '1.234,56', 1234.56 for '1,234.56'
\* and 12.99 for '12,99'; and for every cell in which '.' and ',' both occur
\* and the one that occurs last occurs once, the result is the number read
\* with that last separator as the decimal point and the other separator
\* dropped.
C19_LastSeparatorIsDecimal ==
  Parsed =>
    /\ parse.cell = <<"1",".","2","3","4",",","5","6">> =>
         parse.number = [nan |-> FALSE, neg |-> FALSE, units |-> 123456, scale |-> 2]
    /\ parse.cell = <<"1",",","2","3","4",".","5","6">> =>
         parse.number = [nan |-> FALSE, neg |-> FALSE, units |-> 123456, scale |-> 2]
    /\ parse.cell = <<"1","2",",","9","9">> =>
         parse.number = [nan |-> FALSE, neg |-> FALSE, units |-> 1299, scale |-> 2]
    /\ ( /\ occurrences(parse.cell, ".") # {}
         /\ occurrences(parse.cell, ",") # {}
         /\ Cardinality(occurrences(parse.cell, parse.cell[lastSeparator(parse.cell)])) = 1 )
       => parse.number = readAt(parse.cell, lastSeparator(parse.cell))

\* a German cell and an English cell with both separators have been parsed
C19_Witness ==
  /\ Parsed
  /\ parse.cell \in {<<"1",".","2","3","4",",","5","6">>, <<"-","1",",","2","3","4",".","5","6">>}
  /\ parse.number.units = 123456
  /\ parse.number.scale = 2

\* C20: for a cell with a comma and no dot, the comma is the decimal
\* separator if exactly two digits follow it up to the end of the cell;
\* otherwise every comma is dropped and the digits are read as an integer
\* (so '1,234' gives 1234).
C20_CommaOnlyTwoDigitRule ==
  (Parsed /\ occurrences(parse.cell, ",") # {} /\ occurrences(parse.cell, ".") = {})
  => /\ parse.cell = <<"1",",","2","3","4">> =>
          parse.number = [nan |-> FALSE, neg |-> FALSE, units |-> 1234, scale |-> 0]
     /\ parse.number =
          IF /\ Len(parse.cell) - lastSeparator(parse.cell) = 2
             /\ \A i \in DOMAIN parse.cell :
                  i > lastSeparator(parse.cell) => parse.cell[i] \in DigitChars
          THEN readAt(parse.cell, lastSeparator(parse.cell))
          ELSE readAt(parse.cell, Len(parse.cell) + 1)

-----------------------------------------------------------------------------
(* Rows and files (FileSpec)                                               *)

\* parseFile has returned its promise
FileParsed == parse.stage = "parsed"

\* the extensions of getSupportedExtensions (line 14)
SupportedExtensions == {".csv", ".xlsx", ".xls", ".ofx", ".qfx"}

\* an amount cell that holds a number
holdsNumber(cell) == \E i \in DOMAIN cell : cell[i] \in DigitChars

\* C21: a readable CSV or Excel file is parsed without an error, and every
\* RawTransaction that processRows emits has a date that is a valid ISO date
\* and an amount that was parsed from an amount cell holding a number.
C21_OnlyParseableRows ==
  (FileParsed /\ parse.file.readable /\ getFileType(parse.file) \in {"csv", "excel"})
  => /\ parse.result.ok
     /\ \A i \in DOMAIN parse.result.transactions :
          /\ isValidDate(parse.result.transactions[i].date)
          /\ holdsNumber(parse.result.transactions[i].rawData.amount)
          /\ parse.result.transactions[i].amount =
               parseNumber(parse.result.transactions[i].rawData.amount)

\* C22: whenever the file is unreadable, has an unsupported extension or has
\* no data row, parseFile fails with a message and returns no transactions.
C22_FileErrorsFail ==
  (FileParsed /\ ( \/ ~parse.file.readable
                   \/ parse.file.ext \notin SupportedExtensions
                   \/ parse.file.rows = <<>> ))
  => /\ ~parse.result.ok
     /\ parse.result.message # ""
     /\ parse.result.transactions = <<>>

\* C23: in the transactions the parser returns, a row never comes before a
\* row of a later date.
C23_DateDescending ==
  (FileParsed /\ parse.result.ok)
  => \A i, j \in DOMAIN parse.result.transactions :
       ( /\ i < j
         /\ isValidDate(parse.result.transactions[i].date)
         /\ isValidDate(parse.result.transactions[j].date) )
       => getTime(parse.result.transactions[i].date) >=
            getTime(parse.result.transactions[j].date)

-----------------------------------------------------------------------------
(* Identifiers and manual overrides (Spec)                                 *)

\* the ids of an array of transactions
idsOf(txs) == {txs[k].id : k \in DOMAIN txs}

\* this step is a call of processTransactions that follows an earlier one
ProcessedAgain ==
  /\ fileNo' # fileNo \/ (anonymizationEnabled' # anonymizationEnabled /\ rawTransactionsRef # <<>>)
  /\ run.stage = "done"
  /\ run'.stage = "done"

\* C24: the ids of one call of processTransactions are pairwise distinct, and
\* a call (a re-import, or the reprocessing of a toggle) gives no id that the
\* call before it gave.
C24_FreshIds ==
  [][ProcessedAgain =>
       /\ \A i, j \in DOMAIN run'.result : run'.result[i].id = run'.result[j].id => i = j
       /\ idsOf(run'.result) \cap idsOf(run.result) = {}]_vars


\* a step of handleToggleAnonymization
Toggled == anonymizationEnabled' # anonymizationEnabled

\* the rows that carry a manual override
overridden == {k \in DOMAIN transactions : transactions[k].categorySource = "manual"}

\* C28: a manual override applied to a transaction through handleUpdateTransaction (a
\* changed category or isExcluded, with categorySource 'manual') stays in effect for
\* that row of the imported file after any later anonymization toggle; overrides are
\* never discarded by re-running the pipeline.
C28_OverridesKept ==
  [][Toggled =>
       \A k \in overridden :
         /\ k \in DOMAIN transactions'
         /\ transactions'[k].categorySource = "manual"
         /\ transactions'[k].category = transactions[k].category
         /\ transactions'[k].isExcluded = transactions[k].isExcluded]_vars
-----------------------------------------------------------------------------
(* Internal-transfer detector (DetectorSpec)                               *)

\* the values of a field that is set, over the transactions handed to
\* detectDoubleBookings
collected(field) ==
  {run.categorized[k][field] : k \in DOMAIN run.categorized} \ {<<>>}

\* s contains v, letter case ignored
matches(s, v) == includes(toLowerCase(s), toLowerCase(v))

\* the description holds one of the transfer-keyword phrases
containsKeyword(tx) ==
  \E k \in DOMAIN transferKeywords : includes(toLowerCase(tx.description), transferKeywords[k])

\* C25 as stated: a transaction is flagged as internal whenever its recipient
\* name or recipient IBAN matches a collected referenceAccount or
\* referenceAccountName value, or its description holds a transfer keyword,
\* or it is source-flagged isTransfer.
C25_InternalSignals ==
  Detected =>
    \A k \in DOMAIN run.categorized :
      ( \/ run.categorized[k].isTransfer
        \/ containsKeyword(run.categorized[k])
        \/ \E v \in collected("referenceAccount") \cup collected("referenceAccountName") :
             \/ matches(run.categorized[k].recipient, v)
             \/ matches(run.categorized[k].recipientIban, v) )
      => run.categorized[k].id \in run.markedAsInternal

\* C25: a transaction is flagged as internal whenever its recipient name or
\* recipient IBAN contains a collected referenceAccount value, or its
\* recipient name contains a collected referenceAccountName value of more
\* than 3 characters, or its description holds a transfer keyword, or it is
\* source-flagged isTransfer.
C25_InternalSignalsSpecific ==
  Detected =>
    \A k \in DOMAIN run.categorized :
      ( \/ run.categorized[k].isTransfer
        \/ containsKeyword(run.categorized[k])
        \/ \E v \in collected("referenceAccount") :
             \/ matches(run.categorized[k].recipient, v)
             \/ matches(run.categorized[k].recipientIban, v)
        \/ \E v \in collected("referenceAccountName") :
             Len(v) > 3 /\ matches(run.categorized[k].recipient, v) )
      => run.categorized[k].id \in run.markedAsInternal

\* a transaction with neither flag nor keyword has been flagged because its
\* recipient is the name of an own account
C25_Witness ==
  /\ Detected
  /\ \E k \in DOMAIN run.categorized :
       /\ run.categorized[k].id \in run.markedAsInternal
       /\ ~run.categorized[k].isTransfer
       /\ ~containsKeyword(run.categorized[k])
       /\ run.categorized[k].recipientIban = <<>>
       /\ \E v \in collected("referenceAccountName") :
            matches(run.categorized[k].recipient, v)

\* the position in the input of the transaction with this id
inputIndex(id) == CHOOSE k \in DOMAIN run.categorized : run.categorized[k].id = id

\* the ids of the paired transactions
pairedIdsOf(pairs) == UNION {pairIds(pairs[k]) : k \in DOMAIN pairs}

\* transaction k of the input is an internal income of the date of expense e
\* with an amount within one cent of e's
eligibleIncome(k, e) ==
  /\ run.categorized[k].id \in run.markedAsInternal
  /\ run.categorized[k].type = "income"
  /\ run.categorized[k].date = run.categorized[e].date
  /\ absDiff(run.categorized[k].amount, run.categorized[e].amount) <= 1

\* transaction e of the input is an internal expense
internalExpense(e) ==
  /\ run.categorized[e].id \in run.markedAsInternal
  /\ run.categorized[e].type = "expense"

C27_OthersUntouched ==
  Detected =>
    /\ Len(run.withDoubleBookings) = Len(run.categorized)
    /\ \A k \in DOMAIN run.categorized :
         /\ run.withDoubleBookings[k].id = run.categorized[k].id
         /\ run.categorized[k].id \notin run.markedAsInternal
              => run.withDoubleBookings[k] = run.categorized[k]

\* a batch with a flagged and an unflagged transaction has been through the
\* detector
C27_Witness ==
  /\ Detected
  /\ \E k, j \in DOMAIN run.categorized :
       /\ run.categorized[k].id \in run.markedAsInternal
       /\ run.withDoubleBookings[k] # run.categorized[k]
       /\ run.categorized[j].id \notin run.markedAsInternal
       /\ run.withDoubleBookings[j] = run.categorized[j]

\* the ids of the two sides of each pair
pairedSides(pairs) == {<<pairs[k].outgoing.id, pairs[k].incoming.id>> : k \in DOMAIN pairs}

\* the run of the pipeline on the same rows at the same time with the other
\* anonymization setting
otherSetting ==
  processTransactions(EmptyStore, learnedMappings, rawTransactionsRef, ~run.anonymize, now)

\* C29: the transactions flagged as internal and the pairs found are the same
\* with anonymization enabled and disabled.
C29_SameTransfersEitherWay ==
  Detected =>
    /\ otherSetting.markedAsInternal = run.markedAsInternal
    /\ pairedSides(otherSetting.pairs) = pairedSides(run.pairs)

-----------------------------------------------------------------------------
(* Properties of the recurring summary                                     *)

\* getRecurringSummary has returned
Summarized == summary.stage = "computed"

\* the groups detectRecurring has tagged, each the set of the indices of its members
taggedGroups == {keyGroup(k) : k \in {j \in DOMAIN run.result : run.result[j].isRecurring}}

\* weekly x 4.33, monthly x 1, quarterly / 3 and yearly / 12 of the amount of the k-th
\* transaction, in units of 1/300 of a cent
monthlyOf(k) ==
  IF run.result[k].recurringFrequency = "weekly" THEN (run.result[k].amount * 433 * 300) \div 100
  ELSE IF run.result[k].recurringFrequency = "monthly" THEN run.result[k].amount * 300
  ELSE IF run.result[k].recurringFrequency = "quarterly" THEN (run.result[k].amount * 300) \div 3
  ELSE (run.result[k].amount * 300) \div 12

\* the sums that take the monthly equivalent of one member from each of the groups
RECURSIVE onePerGroup(_)
onePerGroup(groups) ==
  IF groups = {} THEN {0}
  ELSE LET G == CHOOSE H \in groups : TRUE
       IN  {monthlyOf(m) + rest : m \in G, rest \in onePerGroup(groups \ {G})}

\* C30: getRecurringSummary counts each recurring group detected by detectRecurring
\* exactly once: totalMonthlyRecurring is the sum, over the groups tagged by
\* detectRecurring, of the monthly equivalent (weekly x 4.33, monthly x 1,
\* quarterly / 3, yearly / 12) of one member's amount.
C30_EachGroupOnce ==
  Summarized => summary.totalMonthlyRecurring \in onePerGroup(taggedGroups)

\* two tagged groups have been summarized
C30_TwoGroups == Summarized /\ Cardinality(taggedGroups) = 2

=============================================================================
